---- MODULE Spec2Model ----
(***************************************************************************)
(* Model of the x402 pay-per-query gateway: the invoice store              *)
(* (src/stores/paymentStore.js), the request pipeline                      *)
(* (src/handlers/rpcHandler.js) and the pricing policy (utils/pricing).    *)
(*                                                                         *)
(* Time is counted in units of 15 minutes.  Amounts are counted in micro-USDC, the     *)
(* unit of the 6-digit decimal strings the code produces with toFixed(6).  *)
(* A handler runs atomically between two awaits that reach the network     *)
(* (Redis command, chain / facilitator call, upstream call): Node runs one *)
(* continuation at a time, and handlers interleave only at those awaits.   *)
(***************************************************************************)
EXTENDS Integers, Sequences, FiniteSets, TLC

\* ---------------------------------------------------------------- bounds
NReq == 4          \* number of inbound requests of one run
NPipeline == 3     \* of them, when a backend switches or the clock runs
MaxInFlight == 2   \* requests being handled at the same time
MaxRedisEvents == 3 \* connect / error / close events of the Redis client
MaxTime == 2       \* the clock stops here (units of 15 minutes)
NAccounts == 2     \* token accounts a transaction touches
NCalls == 2        \* forwarded calls and health probes at the same time
MaxProviders == 4  \* size of the registry
MaxFailures == 2   \* consecutiveFailures stops growing here
MaxAdded == 2      \* providers added to a registry a selection is made on
MaxRegistry == 5   \* size of the registry when only additions and probes run
NLive == 2         \* requests of a run whose awaited calls all return
NStoreIds == 2     \* paymentIds the store's operations are called with
MaxStoreCalls == 3 \* operations of the store called one after the other

\* ------------------------------------------------------ program constants
TTL == 1               \* setex(.., 900, ..) and expiryTime: 15 minutes
cleanupInterval == 1   \* this.cleanupInterval = 15 * 60 * 1000
PRICE_PER_QUERY == 1000 \* parseFloat(process.env.PRICE_PER_QUERY || '0.001')
DeepHistoricalSlot == 100000 \* slot < 100000

Requests == 1..NReq
PipelineRequests == 1..NPipeline
Ids == 1..NReq          \* paymentIds a run can mint: one per request at most
BogusId == 0            \* a well-formed paymentId the gateway never minted
NoTime == -1            \* an absent timestamp (usedAt while used = false)
NoSlot == -1            \* params[0] absent or not a number

Nil == [nil |-> TRUE]   \* undefined / null

\* the transaction signature the receipt of request r carries; the gateway
\* only copies signatures, so each request carries one of its own
TxSignature(r) == <<"signature", r>>

\* X-Payment headers validatePaymentHeader turns down: not base64 of JSON,
\* no txSignature, a paymentId that is no UUID for Joi, a paymentId Joi
\* takes for a UUID and uuid.validate does not
BadReceipts == {"garbled", "nosig", "badid", "looseid"}

\* JSON-RPC envelopes the clients send: method, params[0], params[1].limit
Bodies ==
  { [method |-> "getBlock", slot |-> 99999,  limit |-> 0],
    [method |-> "getSlot",  slot |-> NoSlot, limit |-> 0] }

VARIABLES
  invoices,    \* this.invoices: the in-memory Map paymentId -> invoice
  kv,          \* the Redis server: paymentId -> [value, expireAt]
  useRedis,    \* this.useRedis
  redis,       \* this.redis is non-null
  redisUp,     \* the Redis connection is established
  initPc,      \* position of initRedis: "ping" (awaiting ping) or "done"
  now,         \* Date.now(), in units of 15 minutes
  nextSweep,   \* due time of the next setInterval cleanup
  nextId,      \* source of fresh uuids
  pc,          \* position of each request's handler
  req,         \* the request: X-Payment present, its paymentId; the body
               \* of a request that has to price it
  invoice,     \* handleRpc's local `invoice` (result of paymentStore.get)
  pending,     \* invoice carried by the request's in-flight Redis setex
  challenge,   \* sendPaymentRequired's locals: paymentId, amount, ..
  resp,        \* the HTTP response sent
  trail,       \* history of the request: stages passed, facts on arrival
  redisEvents, \* number of connection events so far
  verifyCall,  \* arguments and environment of a call of verifyPayment
  verifyResult, \* what that call returned
  providers,   \* the registry: the array `providers`
  providerHealth, \* the Map providerHealth: provider id -> health
  fetches,     \* the calls of fetchWithBestProvider / healthCheckProvider
               \* under way: position, provider awaited, fallbacks left
  priceCall,   \* arguments and environment of a call of calculatePrice
  priceResult, \* what that call returned
  storeOp      \* an operation of the PaymentStore called on its own: its
               \* name, argument, position, locals and result

storeVars == <<invoices, kv, useRedis, redis, redisUp, initPc, redisEvents>>
timeVars == <<now, nextSweep>>
reqVars == <<pc, req, invoice, pending, challenge, resp, trail>>
gatewayVars == <<storeVars, timeVars, nextId, reqVars>>
verifierVars == <<verifyCall, verifyResult>>
providerVars == <<providers, providerHealth, fetches>>
pricingVars == <<priceCall, priceResult>>
serviceVars == <<verifierVars, providerVars, pricingVars, storeOp>>
vars == <<invoices, kv, useRedis, redis, redisUp, initPc, redisEvents, now,
          nextSweep, nextId, pc, req, invoice, pending, challenge, resp,
          trail, verifyCall, verifyResult, providers, providerHealth,
          fetches, priceCall, priceResult, storeOp>>

\* ------------------------------------------------------------ Map helpers
MapSet(m, k, v) == [x \in (DOMAIN m) \cup {k} |-> IF x = k THEN v ELSE m[x]]
MapDel(m, k) == [x \in (DOMAIN m) \ {k} |-> m[x]]
MapGet(m, k) == IF k \in DOMAIN m THEN m[k] ELSE Nil
EmptyMap == [x \in {} |-> Nil]

\* ---------------------------------------------------------------- pricing
\* names every object literal inherits: DEFAULT_PRICES[name] is a function
\* or an object, which is truthy and is no number
ObjectPrototype == {"constructor", "toString", "__proto__"}

\* NaN, the price arithmetic on such a value ends in
NotANumber == -1

DEFAULT_PRICES(method) ==
  CASE method = "getHealth" -> 100
    [] method = "getSlot" -> 100
    [] method = "getBlockHeight" -> 100
    [] method = "getEpochInfo" -> 100
    [] method = "getBlockTime" -> 300
    [] method = "getFirstAvailableBlock" -> 300
    [] method = "getBlock" -> 1000
    [] method = "getTransaction" -> 500
    [] method = "getSignaturesForAddress" -> 800
    [] method \in ObjectPrototype -> NotANumber
    [] OTHER -> 1000

\* the methods DEFAULT_PRICES has an entry for
MethodsWithEntry ==
  {"getHealth", "getSlot", "getBlockHeight", "getEpochInfo", "getBlockTime",
   "getFirstAvailableBlock", "getBlock", "getTransaction",
   "getSignaturesForAddress"}

\* multiplier in tenths
Multiplier(body) ==
  IF body.method \in {"getBlock", "getTransaction"}
       /\ body.slot # NoSlot /\ body.slot < DeepHistoricalSlot THEN 15
  ELSE IF body.method \in {"getSlot", "getBlockHeight"} THEN 8
  ELSE IF body.method = "getSignaturesForAddress" /\ body.limit > 10 THEN 13
  ELSE 10

\* `PRICE_${method.toUpperCase()}`
EnvVar(method) ==
  CASE method = "getBlock" -> "PRICE_GETBLOCK"
    [] method = "getSlot" -> "PRICE_GETSLOT"
    [] method = "getVersion" -> "PRICE_GETVERSION"
    [] OTHER -> "PRICE_OTHER"

\* basePrice: the override in process.env when set, DEFAULT_PRICES[method]
\* or DEFAULT_PRICES.default otherwise
basePrice(env, method) ==
  IF EnvVar(method) \in DOMAIN env THEN env[EnvVar(method)]
  ELSE DEFAULT_PRICES(method)

\* Math.round(basePrice * multiplier * 1000000) / 1000000, in micro-USDC,
\* under the environment env: variable name -> parsed value
calculatePriceEnv(env, body) ==
  IF basePrice(env, body.method) = NotANumber THEN NotANumber
  ELSE (basePrice(env, body.method) * Multiplier(body) + 5) \div 10

\* calculatePrice(method, params) of a gateway started without overrides
calculatePrice(body) == calculatePriceEnv(EmptyMap, body)

\* ------------------------------------------------------------------ store
Backend == IF useRedis /\ redis THEN "redis" ELSE "memory"

\* redis.get: the value under the key unless its TTL has run out
RedisGet(p) ==
  IF p \in DOMAIN kv /\ now < kv[p].expireAt THEN kv[p].value ELSE Nil

\* redis.setex(key, 900, value)
RedisSetex(p, v) == MapSet(kv, p, [value |-> v, expireAt |-> now + TTL])

\* mutant: the flag is flipped instead of set
MemMarkAsUsed_Toggle(p) ==
  IF p \in DOMAIN invoices
  THEN [invoices EXCEPT ![p].used = ~@, ![p].usedAt = now]
  ELSE invoices

\* markAsUsed, in-memory branch: invoice.used = true; invoice.usedAt = now
MemMarkAsUsed(p) ==
  IF p \in DOMAIN invoices
  THEN [invoices EXCEPT ![p].used = TRUE, ![p].usedAt = now]
  ELSE invoices

\* --------------------------------------------------------------- verifier
USDC_MINT == "usdc"      \* process.env.USDC_MINT
OtherMint == "other"     \* the mint of some other SPL token
NoMint == "none"         \* actualMint = null
PAYMENT_WALLET_ADDRESS == "wallet"   \* process.env.PAYMENT_WALLET_ADDRESS
OtherWallet == "otherWallet"         \* the address of some other wallet
NoWallet == "undefined"              \* PAYMENT_WALLET_ADDRESS is not set

\* the recipient verifyPaymentOnChain is called with
Recipients == {PAYMENT_WALLET_ADDRESS, OtherWallet, NoWallet}

\* a call that returned {valid, reason}
Verdict(valid, reason) == [threw |-> FALSE, valid |-> valid, reason |-> reason]

\* a call that threw (its promise rejected)
Threw(message) == [threw |-> TRUE, valid |-> FALSE, reason |-> message]

\* mutant: the exception is thrown on
Caught_Rethrow(outcome, reason) == outcome

\* try { outcome } catch (error) { return {valid: false, reason} }
Caught(outcome, reason) ==
  IF outcome.threw THEN Verdict(FALSE, reason) ELSE outcome

\* FacilitatorClient.verifyPayment, by what the facilitator answers:
\* a body that says verified, another body, an HTTP error status, or no
\* answer at all (the axios error has no response and is thrown on)
FacilitatorReplies == {"verified", "refused", "httpError", "unreachable"}

FacilitatorVerify(reply) ==
  CASE reply = "verified" -> Verdict(TRUE, "")
    [] reply = "refused" -> Verdict(FALSE, "Verification failed")
    [] reply = "httpError" -> Verdict(FALSE, "Facilitator returned error")
    [] OTHER -> Threw("facilitator unreachable")

\* Math.abs(change - expectedLamports) < 100
Tolerance == 100

\* parseFloat(expectedAmount) * 1_000_000 is computed in IEEE-754 doubles:
\* the sign of (product - exact value).  The product is exact for every
\* price DEFAULT_PRICES and CONTEXT_MULTIPLIERS can produce; "0.000249"
\* gives 248.99999999999997 and "0.000123" gives 123.00000000000001.
LamportsExcess(amount) ==
  CASE amount = 249 -> -1
    [] amount = 123 -> 1
    [] OTHER -> 0

\* amountMatches, for an integer change and the double expectedLamports
amountMatches(change, amount) ==
  LET twice == 2 * (change - amount) - LamportsExcess(amount)
  IN -(2 * Tolerance) < twice /\ twice < 2 * Tolerance

\* preTokenBalances.find((p) => p.accountIndex === accountIndex)
RECURSIVE FindPre(_, _, _)
FindPre(pre, accountIndex, i) ==
  IF i > Len(pre) THEN Nil
  ELSE IF pre[i].accountIndex = accountIndex THEN pre[i]
  ELSE FindPre(pre, accountIndex, i + 1)

\* mutant: the owner of the token account has to be the recipient
Accepts_OwnerChecked(pre, post, amount, recipient) ==
  /\ post.amount - pre.amount > 0
  /\ post.owner = recipient
  /\ amountMatches(post.amount - pre.amount, amount)

\* a pair of the required mint is a valid transfer: change > 0 and
\* amountMatches; ownerMatches is computed and not used
Accepts(pre, post, amount, recipient) ==
  LET ownerMatches == post.owner = recipient
  IN /\ post.amount - pre.amount > 0
     /\ amountMatches(post.amount - pre.amount, amount)

\* the loop over postTokenBalances from index i on; actualMint is the last
\* wrong mint seen so far
RECURSIVE ScanTransfers(_, _, _, _, _, _)
ScanTransfers(tx, amount, mint, recipient, i, actualMint) ==
  IF i > Len(tx.post)
  THEN [validTransfer |-> FALSE, actualMint |-> actualMint]
  ELSE LET post == tx.post[i]
           pre == FindPre(tx.pre, post.accountIndex, 1)
       IN IF pre = Nil
          THEN ScanTransfers(tx, amount, mint, recipient, i + 1, actualMint)
          ELSE IF post.mint # mint
          THEN ScanTransfers(tx, amount, mint, recipient, i + 1, post.mint)
          ELSE IF Accepts(pre, post, amount, recipient)
          THEN [validTransfer |-> TRUE, actualMint |-> actualMint]
          ELSE ScanTransfers(tx, amount, mint, recipient, i + 1, actualMint)

\* verifyPaymentOnChain, by what connection.getTransaction answers: the
\* call rejects, null, a transaction with meta.err, a transaction without
\* meta, or a transaction with its token-balance tables; new
\* PublicKey(recipient) throws when the recipient is no public key
verifyPaymentOnChain(chain, amount, mint, recipient) ==
  CASE chain.kind = "rejects" ->
         Caught(Threw("rpc"), "On-chain verification failed")
    [] chain.kind = "null" ->
         Verdict(FALSE, "Transaction not found on chain")
    [] chain.kind = "failed" ->
         Verdict(FALSE, "Transaction failed on chain")
    [] chain.kind = "nometa" ->
         Caught(Threw("TypeError"), "On-chain verification failed")
    [] OTHER ->
         IF Len(chain.pre) = 0 \/ Len(chain.post) = 0
         THEN Verdict(FALSE, "No token balance changes found")
         ELSE IF recipient = NoWallet
         THEN Caught(Threw("Invalid public key input"),
                     "On-chain verification failed")
         ELSE LET scan == ScanTransfers(chain, amount, mint, recipient, 1,
                                        NoMint)
              IN IF scan.validTransfer THEN Verdict(TRUE, "")
                 ELSE IF scan.actualMint # NoMint
                 THEN Verdict(FALSE, "Wrong token mint")
                 ELSE Verdict(FALSE, "No valid USDC transfer found")

\* the body of verifyPayment's try block; call.facilitator is "none" when
\* FACILITATOR_VERIFY_URL is not set
TryVerifyPayment(call) ==
  LET result == FacilitatorVerify(call.facilitator)
  IN IF call.facilitator # "none" /\ result.threw THEN result
     ELSE IF call.facilitator # "none" /\ result.valid THEN result
     ELSE verifyPaymentOnChain(call.chain, call.expectedAmount, call.mint,
                               call.recipient)

\* verifyPayment({txSignature, paymentId, expectedAmount, mint, recipient})
verifyPayment(call) == Caught(TryVerifyPayment(call), "Verification error")

\* -------------------------------------------------------------- providers
Calls == 1..NCalls

\* the number of consecutive failures selectBestProvider still accepts
FailureLimit == 3

\* a registry record.  pricing is counted in tenths, uptime in tenths of a
\* percent, latency in ms; historical says whether features includes
\* 'historical'
Provider(id, pricing, reputation, uptime, latency, historical) ==
  [id |-> id, pricing |-> pricing, reputation |-> reputation,
   uptime |-> uptime, latency |-> latency, historical |-> historical]

\* the three initial entries of `providers`
DefaultProviders ==
  << Provider("triton-old-faithful", 10, 100, 999, 50, TRUE),
     Provider("solana-devnet-public", 5, 85, 985, 120, FALSE),
     Provider("community-archive", 3, 75, 950, 200, TRUE) >>

\* provider data POST /providers/add can carry after validateProvider:
\* pricing (tenths, 0 to 100) and whether features has 'historical'
ProviderData == [pricing : {0, 3}, historical : BOOLEAN]

\* `provider-${Date.now()}` of the k-th entry of the registry
AddedIds ==
  << "provider-1", "provider-2", "provider-3", "provider-4", "provider-5",
     "provider-6" >>

\* addProvider's record for the k-th entry of the registry: the handler
\* passes neither id nor reputation, uptime, latency, so these are
\* `provider-${Date.now()}`, 50, 95.0 and 150; a pricing of 0 becomes 1.0.
NewProvider(data, k) ==
  Provider(AddedIds[k], IF data.pricing = 0 THEN 10 ELSE data.pricing,
           50, 950, 150, data.historical)

\* options of selectBestProvider
SelectionOptions == [requireHistorical : BOOLEAN, preferCheapest : BOOLEAN]

\* health?.consecutiveFailures > 3
Unhealthy(health, id) ==
  id \in DOMAIN health /\ health[id].consecutiveFailures > FailureLimit

\* the filter of selectBestProvider
Eligible(p, health, options) ==
  /\ ~Unhealthy(health, p.id)
  /\ options.requireHistorical => p.historical

\* score of a provider, times 1000
Score(p, options) ==
  IF options.preferCheapest
  THEN (10 - p.pricing) * 5000 + p.reputation * 300 + p.uptime * 20
  ELSE p.reputation * 400 + p.uptime * 30 + (10 - p.pricing) * 2000
         + (500 - p.latency) * 20

\* mutant: among equal scores the later entry comes first
InsertByScore_Unstable(sorted, p, options) ==
  LET before == SelectSeq(sorted, LAMBDA q : Score(q, options)
                                               > Score(p, options))
      after == SelectSeq(sorted, LAMBDA q : Score(q, options)
                                              <= Score(p, options))
  IN before \o <<p>> \o after

\* one step of the stable sort by descending score: p goes behind every
\* entry whose score is not smaller
InsertByScore(sorted, p, options) ==
  LET before == SelectSeq(sorted, LAMBDA q : Score(q, options)
                                               >= Score(p, options))
      after == SelectSeq(sorted, LAMBDA q : Score(q, options)
                                              < Score(p, options))
  IN before \o <<p>> \o after

\* scored.sort((a, b) => b.score - a.score)
RECURSIVE SortByScore(_, _)
SortByScore(candidates, options) ==
  IF candidates = <<>> THEN <<>>
  ELSE InsertByScore(SortByScore(SubSeq(candidates, 1, Len(candidates) - 1),
                                 options),
                     candidates[Len(candidates)], options)

\* mutant: the health filter lets a provider with 4 failures through
Candidates_OffByOne(registry, health, options) ==
  LET filtered ==
        SelectSeq(registry,
                  LAMBDA p : /\ ~(p.id \in DOMAIN health
                                    /\ health[p.id].consecutiveFailures
                                         > FailureLimit + 1)
                             /\ options.requireHistorical => p.historical)
  IN IF filtered = <<>> THEN registry ELSE filtered

\* the candidates of selectBestProvider: the filtered registry, or the
\* whole registry when the filter leaves nothing
Candidates(registry, health, options) ==
  LET filtered == SelectSeq(registry, LAMBDA p : Eligible(p, health, options))
  IN IF filtered = <<>> THEN registry ELSE filtered

\* selectBestProvider(options) on a registry and a health Map
selectBestProvider(registry, health, options) ==
  Head(SortByScore(Candidates(registry, health, options), options))

\* mutant: a failure starts the count again
Failed_Restart(health, id) ==
  [status |-> "unhealthy", consecutiveFailures |-> 1]

\* the health an unsuccessful call or probe writes
Failed(health, id) ==
  [status |-> "unhealthy",
   consecutiveFailures |->
     (IF id \in DOMAIN health THEN health[id].consecutiveFailures ELSE 0) + 1]

\* the health a successful call or probe writes
Healthy == [status |-> "healthy", consecutiveFailures |-> 0]

\* a call slot nobody uses
Idle == [pc |-> "idle"]

\* ---------------------------------------------------- verifier's inputs
\* invoice amounts: the default price, and a price set through PRICE_PER_QUERY
\* whose product with 1_000_000 is not exact in doubles
ExpectedAmounts == {PRICE_PER_QUERY, 249}

\* token-balance tables: each account of the transaction at most once
Tables(entries) ==
  {t \in UNION {[1..n -> entries] : n \in 0..NAccounts} :
     \A i, j \in DOMAIN t : i # j => t[i].accountIndex # t[j].accountIndex}

PreTables == Tables([accountIndex : 1..NAccounts, amount : {0, 1}])

PostTables(amount) ==
  Tables([accountIndex : 1..NAccounts, mint : {USDC_MINT, OtherMint},
          owner : {PAYMENT_WALLET_ADDRESS, OtherWallet},
          amount : {0, amount - Tolerance, amount - Tolerance + 1,
                    amount + Tolerance}])

\* what connection.getTransaction can answer
ChainReplies(amount) ==
  {[kind |-> k, pre |-> <<>>, post |-> <<>>] :
     k \in {"rejects", "null", "failed", "nometa"}}
    \cup [kind : {"tx"}, pre : PreTables, post : PostTables(amount)]

\* a transaction that moves `amount` of the required mint to one account
PaysTx(amount) ==
  [kind |-> "tx", pre |-> <<[accountIndex |-> 1, amount |-> 0]>>,
   post |-> <<[accountIndex |-> 1, mint |-> USDC_MINT,
               owner |-> PAYMENT_WALLET_ADDRESS, amount |-> amount]>>]

VerifyCall(facilitator, chain, amount, recipient) ==
  [facilitator |-> facilitator, chain |-> chain, expectedAmount |-> amount,
   mint |-> USDC_MINT, recipient |-> recipient]

\* ------------------------------------------------------------- responses
\* res.status(status).json({error, message, ..}); the accepts[0] entry of a
\* payment_required body is the challenge record of the request.  details
\* is the body's details field, header the X-Payment-Response header and
\* body the JSON-RPC body of a 200.
Response(status, error, message) ==
  [status |-> status, error |-> error, message |-> message, details |-> "",
   header |-> Nil, body |-> Nil]

\* ------------------------------------------------------ handler fragments
\* mutant: the identifier returned by the previous call is returned again
uuidv4_Reused == IF nextId > 1 THEN nextId - 1 ELSE nextId

\* uuidv4(): an identifier no earlier call returned
uuidv4 == nextId

\* mutant: the invoice is stored with the default price
NewInvoice_DefaultPrice(amount, method) ==
  [amount |-> PRICE_PER_QUERY, createdAt |-> now, used |-> FALSE,
   usedAt |-> NoTime, method |-> method]

\* the invoice paymentStore.create stores: {...data, createdAt, used: false}
NewInvoice(amount, method) ==
  [amount |-> amount, createdAt |-> now, used |-> FALSE, usedAt |-> NoTime,
   method |-> method]

\* mutant: a missing invoice is reported as an already used one
LookupOutcome_MissingIsUsed(inv) ==
  IF inv = Nil THEN "used" ELSE IF inv.used THEN "used" ELSE "ok"

\* handleRpc's branch on the looked-up invoice
LookupOutcome(inv) ==
  IF inv = Nil THEN "notfound" ELSE IF inv.used THEN "used" ELSE "ok"

\* the invoice is older than its TTL
Expired(inv) == now - inv.createdAt > TTL

\* the request r answers and its handler ends (its locals die)
Respond(r, response) ==
  /\ pc' = [pc EXCEPT ![r] = "done"]
  /\ resp' = [resp EXCEPT ![r] = response]
  /\ invoice' = [invoice EXCEPT ![r] = Nil]
  /\ pending' = [pending EXCEPT ![r] = Nil]

\* sendPaymentRequired(res, message, requestBody) run by r while the flag
\* this.useRedis has value ur; tr is the trail of r so far.
\* Sets nextId, challenge, useRedis, kv, invoices, invoice, pending, pc,
\* resp, trail.
SendPaymentRequired(r, message, body, ur, tr) ==
  LET amount == IF body # Nil THEN calculatePrice(body) ELSE PRICE_PER_QUERY
      method == IF body # Nil THEN body.method ELSE "unknown"
      ch == [paymentId |-> uuidv4, message |-> message, amount |-> amount,
             method |-> method, createdAt |-> now,
             paymentAddress |-> PAYMENT_WALLET_ADDRESS]
      inv == NewInvoice(amount, method)
  IN /\ nextId' = nextId + 1
     /\ challenge' = [challenge EXCEPT ![r] = ch]
     /\ useRedis' = ur
     /\ kv' = kv
     /\ trail' = [trail EXCEPT ![r] = tr \cup {"mint"}]
     /\ IF ur /\ redis
        THEN \* create awaits redis.setex
             /\ pc' = [pc EXCEPT ![r] = "create_setex"]
             /\ pending' = [pending EXCEPT ![r] = inv]
             /\ invoice' = [invoice EXCEPT ![r] = Nil]
             /\ UNCHANGED <<invoices, resp>>
        ELSE \* create writes the Map, then the 402 is sent
             /\ invoices' = MapSet(invoices, ch.paymentId, inv)
             /\ Respond(r, Response(402, "payment_required", message))

\* handleRpc from the return of paymentStore.get (with result inv and the
\* flag at value ur) to its next await or its response.
\* Sets the same variables as SendPaymentRequired.
AfterGet(r, inv, ur, tr) ==
  LET seen == tr \cup {"lookup"}
                 \cup (IF inv = Nil THEN {"nil"} ELSE {})
                 \cup (IF inv # Nil /\ Expired(inv) THEN {"stale"} ELSE {})
  IN CASE LookupOutcome(inv) = "notfound" ->
            SendPaymentRequired(r, "Payment ID not found or expired", Nil,
                                ur, seen)
       [] LookupOutcome(inv) = "used" ->
            /\ Respond(r, Response(402, "payment_already_used",
                                   "This payment has already been used"))
            /\ useRedis' = ur
            /\ trail' = [trail EXCEPT ![r] = seen]
            /\ UNCHANGED <<nextId, challenge, kv, invoices>>
       [] OTHER ->
            \* await verifyPayment(...)
            /\ pc' = [pc EXCEPT ![r] = "verify"]
            /\ invoice' = [invoice EXCEPT ![r] = inv]
            /\ useRedis' = ur
            /\ trail' = [trail EXCEPT ![r] = seen \cup {"verify"}]
            /\ UNCHANGED <<nextId, challenge, kv, invoices, pending, resp>>

\* requests that answered a payment_required challenge
Challenged ==
  {q \in Requests : pc[q] = "done" /\ resp[q].error = "payment_required"}

\* paymentIds a client can present: those of challenges already answered
KnownIds == {challenge[q].paymentId : q \in Challenged}

\* the time sendPaymentRequired stamped on the invoice of a known paymentId
CreatedAt(p) ==
  (CHOOSE c \in {challenge[q] : q \in Challenged} : c.paymentId = p).createdAt

\* paymentIds already served with HTTP 200
ServedIds ==
  {req[q].paymentId :
     q \in {x \in Requests : pc[x] = "done" /\ resp[x].status = 200}}

InFlight == {q \in Requests : pc[q] \notin {"idle", "done"}}

\* ------------------------------------------------------------- initRedis
\* await this.redis.ping() resolves: this.useRedis = true
InitPingOk ==
  /\ initPc = "ping" /\ redisUp
  /\ initPc' = "done"
  /\ useRedis' = TRUE
  /\ UNCHANGED <<invoices, kv, redis, redisUp, redisEvents, timeVars, nextId,
                 reqVars>>
  /\ UNCHANGED serviceVars

\* ping rejects (the connection is not established): this.useRedis = false;
\* this.redis = null.  The client object lives on and still emits events.
InitPingFail ==
  /\ initPc = "ping" /\ ~redisUp
  /\ initPc' = "done"
  /\ useRedis' = FALSE
  /\ redis' = FALSE
  /\ UNCHANGED <<invoices, kv, redisUp, redisEvents, timeVars, nextId,
                 reqVars>>
  /\ UNCHANGED serviceVars

\* redis.on('connect'): the client (re)connected
RedisConnect ==
  /\ ~redisUp
  /\ redisEvents < MaxRedisEvents
  /\ redisEvents' = redisEvents + 1
  /\ redisUp' = TRUE
  /\ useRedis' = TRUE
  /\ UNCHANGED <<invoices, kv, redis, initPc, timeVars, nextId, reqVars>>
  /\ UNCHANGED serviceVars

\* redis.on('error')
RedisError ==
  /\ useRedis
  /\ redisEvents < MaxRedisEvents
  /\ redisEvents' = redisEvents + 1
  /\ useRedis' = FALSE
  /\ UNCHANGED <<invoices, kv, redis, redisUp, initPc, timeVars, nextId,
                 reqVars>>
  /\ UNCHANGED serviceVars

\* redis.on('close'): the connection is lost
RedisClose ==
  /\ redisUp
  /\ redisEvents < MaxRedisEvents
  /\ redisEvents' = redisEvents + 1
  /\ redisUp' = FALSE
  /\ useRedis' = FALSE
  /\ UNCHANGED <<invoices, kv, redis, initPc, timeVars, nextId, reqVars>>
  /\ UNCHANGED serviceVars

\* ------------------------------------------------------------------ time
Tick ==
  /\ now < MaxTime
  /\ now < nextSweep
  /\ now' = now + 1
  /\ UNCHANGED <<storeVars, nextSweep, nextId, reqVars>>
  /\ UNCHANGED serviceVars

\* the invoices cleanup() leaves in the Map
Swept(m) == [p \in {x \in DOMAIN m : ~Expired(m[x])} |-> m[p]]

\* PaymentStore.cleanup, run by setInterval every cleanupInterval
Cleanup ==
  /\ now >= nextSweep
  /\ nextSweep' = nextSweep + cleanupInterval
  /\ invoices' = IF useRedis THEN invoices ELSE Swept(invoices)
  /\ UNCHANGED <<kv, useRedis, redis, redisUp, initPc, redisEvents, now,
                 nextId, reqVars>>
  /\ UNCHANGED serviceVars

\* ------------------------------------------------------------- handleRpc
\* requests are numbered in their order of arrival
InOrder(r) == IF r = 1 THEN TRUE ELSE pc[r - 1] # "idle"

Arrives(r) ==
  /\ pc[r] = "idle"
  /\ InOrder(r)
  /\ Cardinality(InFlight) < MaxInFlight

\* A request without X-Payment header arrives: sendPaymentRequired
StartUnpaid(r) ==
  /\ Arrives(r)
  /\ \E body \in Bodies :
       /\ req' = [req EXCEPT ![r] = [hdr |-> FALSE, paymentId |-> BogusId,
                                     body |-> body, txSignature |-> Nil]]
       /\ SendPaymentRequired(r, "Payment required", body, useRedis, {})
  /\ UNCHANGED <<redis, redisUp, initPc, redisEvents, timeVars>>
  /\ UNCHANGED serviceVars

\* the 402 of validatePaymentHeader for a header it turns down
Rejection(receipt) ==
  CASE receipt = "garbled" ->
         Response(402, "invalid_payment_header",
                  "X-Payment header must be base64-encoded JSON")
    [] receipt = "looseid" ->
         Response(402, "invalid_payment_id",
                  "Payment ID must be a valid UUID")
    [] receipt = "nosig" ->
         [Response(402, "invalid_payment_header",
                   "Payment header validation failed")
            EXCEPT !.details = "txSignature is required"]
    [] OTHER ->
         [Response(402, "invalid_payment_header",
                   "Payment header validation failed")
            EXCEPT !.details = "paymentId must be a valid GUID"]

\* A request with an X-Payment header validatePaymentHeader turns down
\* arrives: the middleware answers and handleRpc is not called
RejectReceipt(r) ==
  /\ Arrives(r)
  /\ \E receipt \in BadReceipts :
       /\ req' = [req EXCEPT ![r] = [hdr |-> TRUE, paymentId |-> BogusId,
                                     body |-> Nil, txSignature |-> Nil,
                                     receipt |-> receipt]]
       /\ Respond(r, Rejection(receipt))
  /\ trail' = [trail EXCEPT ![r] = {"turnedDown"}]
  /\ UNCHANGED <<storeVars, timeVars, nextId, challenge, serviceVars>>

\* what the gateway already did with the presented paymentId on arrival
Arrival(p) ==
  (IF p \in ServedIds THEN {"replay"} ELSE {})
    \cup (IF p \in KnownIds /\ now - CreatedAt(p) > TTL THEN {"late"} ELSE {})

\* A request with a well-formed receipt arrives: paymentStore.get
StartPaidSigned(r, signatures, bodies) ==
  /\ Arrives(r)
  /\ \E p \in KnownIds \cup {BogusId}, signature \in signatures,
        body \in bodies :
       /\ req' = [req EXCEPT ![r] = [hdr |-> TRUE, paymentId |-> p,
                                     body |-> body,
                                     txSignature |-> signature]]
       /\ IF useRedis /\ redis
          THEN \* get awaits redis.get
               /\ pc' = [pc EXCEPT ![r] = "get"]
               /\ trail' = [trail EXCEPT ![r] = Arrival(p)]
               /\ UNCHANGED <<invoices, kv, useRedis, nextId, invoice,
                              pending, challenge, resp>>
          ELSE AfterGet(r, MapGet(invoices, p), useRedis, Arrival(p))
  /\ UNCHANGED <<redis, redisUp, initPc, redisEvents, timeVars>>
  /\ UNCHANGED serviceVars

\* the receipt carries a transaction signature no request presented before;
\* what the request asks for is left out
StartPaid(r) == StartPaidSigned(r, {TxSignature(r)}, {Nil})

\* the requests that presented a well-formed receipt
Payers ==
  {q \in Requests : req[q] # Nil /\ req[q].hdr /\ "receipt" \notin DOMAIN req[q]}

\* the signatures a client puts in the receipt of request r: a fresh one, or
\* one an earlier receipt carried
Presentable(r) == {TxSignature(r)} \cup {req[q].txSignature : q \in Payers}

\* the receipt carries any signature the client knows
StartPaidAgain(r) == StartPaidSigned(r, Presentable(r), {Nil})

\* the receipt comes with any request body
StartPaidFor(r) == StartPaidSigned(r, {TxSignature(r)}, Bodies)

\* redis.get of paymentStore.get answers
GetOk(r) ==
  /\ pc[r] = "get" /\ redisUp
  /\ AfterGet(r, RedisGet(req[r].paymentId), useRedis, trail[r])
  /\ UNCHANGED <<redis, redisUp, initPc, redisEvents, timeVars, req>>
  /\ UNCHANGED serviceVars

\* redis.get of paymentStore.get throws: useRedis = false, Map lookup
GetFail(r) ==
  /\ pc[r] = "get"
  /\ AfterGet(r, MapGet(invoices, req[r].paymentId), FALSE, trail[r])
  /\ UNCHANGED <<redis, redisUp, initPc, redisEvents, timeVars, req>>
  /\ UNCHANGED serviceVars

\* redis.setex of paymentStore.create answers: the 402 is sent
CreateSetexOk(r) ==
  /\ pc[r] = "create_setex" /\ redisUp
  /\ kv' = RedisSetex(challenge[r].paymentId, pending[r])
  /\ Respond(r, Response(402, "payment_required", challenge[r].message))
  /\ UNCHANGED <<invoices, useRedis, redis, redisUp, initPc, redisEvents,
                 timeVars, nextId, req, challenge, trail>>
  /\ UNCHANGED serviceVars

\* redis.setex of paymentStore.create throws: useRedis = false, Map write
CreateSetexFail(r) ==
  /\ pc[r] = "create_setex"
  /\ useRedis' = FALSE
  /\ invoices' = MapSet(invoices, challenge[r].paymentId, pending[r])
  /\ Respond(r, Response(402, "payment_required", challenge[r].message))
  /\ UNCHANGED <<kv, redis, redisUp, initPc, redisEvents, timeVars, nextId,
                 req, challenge, trail>>
  /\ UNCHANGED serviceVars

\* handleRpc after markAsUsed returned: Promise.all([settlePayment(..),
\* fetchFromOldFaithful(req.body)]) is started
StartProxy(r) ==
  /\ pc' = [pc EXCEPT ![r] = "proxy"]
  /\ trail' = [trail EXCEPT ![r] = @ \cup {"mark", "proxy", "settle"}]

\* the catch block of handleRpc
InternalError ==
  Response(500, "internal_error",
           "An unexpected error occurred processing your request")

\* mutant: the reason of the verifier is left out
PaymentInvalid_NoDetails(verificationResult) ==
  Response(402, "payment_invalid", "Payment verification failed")

\* the 402 for a verification that returned valid = false
PaymentInvalid(verificationResult) ==
  [Response(402, "payment_invalid", "Payment verification failed")
     EXCEPT !.details = verificationResult.reason]

\* what facilitator and chain answer while a request of the gateway waits
\* for verifyPayment
GatewayFacilitatorReplies == {"none", "verified", "unreachable"}

GatewayChainReplies(amount) ==
  {[kind |-> "rejects", pre |-> <<>>, post |-> <<>>],
   [kind |-> "nometa", pre |-> <<>>, post |-> <<>>],
   [kind |-> "null", pre |-> <<>>, post |-> <<>>],
   PaysTx(amount)}

\* the answers leave it open whether the payment was made
Inconclusive(call) ==
  \/ call.facilitator = "unreachable"
  \/ call.facilitator # "verified" /\ call.chain.kind \in {"rejects", "nometa"}

\* verifyPayment answers: 402 payment_invalid, or paymentStore.markAsUsed
VerifyDone(r) ==
  /\ pc[r] = "verify"
  /\ \E f \in GatewayFacilitatorReplies,
        c \in GatewayChainReplies(invoice[r].amount) :
       LET call == VerifyCall(f, c, invoice[r].amount,
                              PAYMENT_WALLET_ADDRESS)
           verificationResult == verifyPayment(call)
       IN /\ verifyCall' = call
          /\ verifyResult' = verificationResult
          /\ IF verificationResult.threw
             THEN /\ Respond(r, InternalError)
                  /\ UNCHANGED <<invoices, trail>>
             ELSE IF ~verificationResult.valid
             THEN /\ Respond(r, PaymentInvalid(verificationResult))
                  /\ UNCHANGED <<invoices, trail>>
             ELSE IF useRedis /\ redis
             THEN \* markAsUsed awaits redis.get
                  /\ pc' = [pc EXCEPT ![r] = "mark_get"]
                  /\ trail' = [trail EXCEPT ![r] = @ \cup {"mark"}]
                  /\ UNCHANGED <<invoices, invoice, pending, resp>>
             ELSE /\ invoices' = MemMarkAsUsed(req[r].paymentId)
                  /\ StartProxy(r)
                  /\ UNCHANGED <<invoice, pending, resp>>
  /\ UNCHANGED <<kv, useRedis, redis, redisUp, initPc, redisEvents, timeVars,
                 nextId, req, challenge>>
  /\ UNCHANGED <<providerVars, pricingVars, storeOp>>

\* mutant: the copy is stamped as created now
MarkedCopy_Restamped(data) ==
  [data EXCEPT !.used = TRUE, !.usedAt = now, !.createdAt = now]

\* the copy markAsUsed writes back: invoice.used = true; invoice.usedAt = now
MarkedCopy(data) == [data EXCEPT !.used = TRUE, !.usedAt = now]

\* redis.get of markAsUsed answers: setex of the marked copy when the key
\* holds data, the in-memory branch when it does not
MarkGetOk(r) ==
  /\ pc[r] = "mark_get" /\ redisUp
  /\ LET data == RedisGet(req[r].paymentId)
     IN IF data # Nil
        THEN /\ pending' = [pending EXCEPT ![r] = MarkedCopy(data)]
             /\ pc' = [pc EXCEPT ![r] = "mark_setex"]
             /\ UNCHANGED <<invoices, trail>>
        ELSE /\ invoices' = MemMarkAsUsed(req[r].paymentId)
             /\ StartProxy(r)
             /\ UNCHANGED pending
  /\ UNCHANGED <<kv, useRedis, redis, redisUp, initPc, redisEvents, timeVars,
                 nextId, req, invoice, challenge, resp>>
  /\ UNCHANGED serviceVars

\* redis.get of markAsUsed throws: useRedis = false, in-memory branch
MarkGetFail(r) ==
  /\ pc[r] = "mark_get"
  /\ useRedis' = FALSE
  /\ invoices' = MemMarkAsUsed(req[r].paymentId)
  /\ StartProxy(r)
  /\ UNCHANGED <<kv, redis, redisUp, initPc, redisEvents, timeVars, nextId,
                 req, invoice, pending, challenge, resp>>
  /\ UNCHANGED serviceVars

\* redis.setex of markAsUsed answers
MarkSetexOk(r) ==
  /\ pc[r] = "mark_setex" /\ redisUp
  /\ kv' = RedisSetex(req[r].paymentId, pending[r])
  /\ pending' = [pending EXCEPT ![r] = Nil]
  /\ StartProxy(r)
  /\ UNCHANGED <<invoices, useRedis, redis, redisUp, initPc, redisEvents,
                 timeVars, nextId, req, invoice, challenge, resp>>
  /\ UNCHANGED serviceVars

\* redis.setex of markAsUsed throws: useRedis = false, in-memory branch
MarkSetexFail(r) ==
  /\ pc[r] = "mark_setex"
  /\ useRedis' = FALSE
  /\ invoices' = MemMarkAsUsed(req[r].paymentId)
  /\ pending' = [pending EXCEPT ![r] = Nil]
  /\ StartProxy(r)
  /\ UNCHANGED <<kv, redis, redisUp, initPc, redisEvents, timeVars, nextId,
                 req, invoice, challenge, resp>>
  /\ UNCHANGED serviceVars

\* what settlePayment does: no settle URL is configured, the facilitator
\* answers a JSON object, the call rejects, the facilitator answers null
SettleReplies == {"skipped", "settled", "rejected", "null"}

\* mutant: the rejection of settlePayment is not turned into a result
SettleResult_Unhandled(reply) ==
  CASE reply = "skipped" ->
         [settled |-> FALSE, reason |-> "no_facilitator", error |-> ""]
    [] reply = "settled" -> [settled |-> TRUE, reason |-> "", error |-> ""]
    [] OTHER -> Nil

\* settleResult: settlePayment(..).catch((err) => ({error: err.message}))
SettleResult(reply) ==
  CASE reply = "skipped" ->
         [settled |-> FALSE, reason |-> "no_facilitator", error |-> ""]
    [] reply = "settled" -> [settled |-> TRUE, reason |-> "", error |-> ""]
    [] reply = "rejected" ->
         [settled |-> FALSE, reason |-> "", error |-> "settlement failed"]
    [] OTHER -> Nil

\* what fetchFromOldFaithful resolves to: the body of a provider, or the
\* JSON-RPC error body of fetchWithBestProvider when every provider failed
RpcResults == {"upstream", "providersUnavailable"}

\* the id of the JSON-RPC body of request r; the gateway only copies it
RpcId(r) == <<"id", r>>

\* what a provider answered, passed on as it is
UpstreamBody == [jsonrpc |-> "2.0", upstream |-> TRUE]

\* mutant: the error body carries the code of an invalid request
AllProvidersUnavailable_InvalidRequest(id) ==
  [jsonrpc |-> "2.0", id |-> id, code |-> -32600,
   message |-> "Internal error: All data providers unavailable"]

\* the error body fetchWithBestProvider returns when all providers failed
AllProvidersUnavailable(id) ==
  [jsonrpc |-> "2.0", id |-> id, code |-> -32603,
   message |-> "Internal error: All data providers unavailable"]

\* the body fetchFromOldFaithful(req.body) resolves to
fetchFromOldFaithful(rpcResult, id) ==
  IF rpcResult = "providersUnavailable"
  THEN AllProvidersUnavailable(id) ELSE UpstreamBody

\* mutant: the header's txSignature is derived from the paymentId
PaymentResponse_IdAsSignature(request, settleResult) ==
  [txSignature |-> TxSignature(request.paymentId),
   paymentId |-> request.paymentId, settled |-> settleResult.error = ""]

\* the X-Payment-Response header: {txSignature, paymentId, settled}
PaymentResponse(request, settleResult) ==
  [txSignature |-> request.txSignature, paymentId |-> request.paymentId,
   settled |-> settleResult.error = ""]

\* settlePayment and fetchFromOldFaithful have both settled: HTTP 200 with
\* the header, or the catch block when settleResult.error cannot be read
ProxyDone(r) ==
  /\ pc[r] = "proxy"
  /\ \E reply \in SettleReplies, rpcResult \in RpcResults :
       /\ trail' = [trail EXCEPT ![r] = @ \cup {reply, rpcResult}]
       /\ IF SettleResult(reply) = Nil
          THEN Respond(r, InternalError)
          ELSE Respond(r, [Response(200, "", "") EXCEPT
                             !.header = PaymentResponse(req[r],
                                                        SettleResult(reply)),
                             !.body = fetchFromOldFaithful(rpcResult,
                                                           RpcId(r))])
  /\ UNCHANGED <<storeVars, timeVars, nextId, req, challenge>>
  /\ UNCHANGED serviceVars

\* -------------------------------------------------------- verifyPayment
\* verifyPayment is called
VerifierCalled ==
  /\ verifyCall = Nil
  /\ \E amount \in ExpectedAmounts :
       \E f \in FacilitatorReplies \cup {"none"}, c \in ChainReplies(amount),
          recipient \in Recipients :
         verifyCall' = VerifyCall(f, c, amount, recipient)
  /\ verifyResult' = Nil
  /\ UNCHANGED <<gatewayVars, providerVars,
                 pricingVars, storeOp>>

\* the call returns
VerifierReturns ==
  /\ verifyCall # Nil /\ verifyResult = Nil
  /\ verifyResult' = verifyPayment(verifyCall)
  /\ UNCHANGED <<verifyCall, gatewayVars, providerVars,
                 pricingVars, storeOp>>

\* ------------------------------------------------------- provider calls
\* the methods of historicalMethods and one that is not among them
HistoricalMethods == {"getBlock", "getTransaction", "getSignaturesForAddress"}
Methods == {"getBlock", "getSlot"}

\* consecutiveFailures of id as a failing call reads it
Failures(id) ==
  IF id \in DOMAIN providerHealth
  THEN providerHealth[id].consecutiveFailures ELSE 0

\* fetchWithBestProvider(body, options) up to its first await: the primary
\* provider is selected and asked
FetchStarts(c) ==
  /\ fetches[c].pc \in {"idle", "done"}
  /\ \E method \in Methods, preferCheapest \in BOOLEAN :
       LET selectionOptions ==
             [requireHistorical |-> method \in HistoricalMethods,
              preferCheapest |-> preferCheapest]
           primaryProvider ==
             selectBestProvider(providers, providerHealth, selectionOptions)
       IN fetches' = [fetches EXCEPT ![c] =
                        [pc |-> "primary", provider |-> primaryProvider,
                         options |-> selectionOptions,
                         tried |-> <<primaryProvider.id>>]]
  /\ UNCHANGED <<providers, providerHealth, gatewayVars, verifierVars,
                 pricingVars, storeOp>>

\* the provider asked by fetchFromProvider answers: its health is reset and
\* fetchWithBestProvider returns the answer
ProviderAnswers(c) ==
  /\ fetches[c].pc \in {"primary", "fallback"}
  /\ providerHealth' = MapSet(providerHealth, fetches[c].provider.id, Healthy)
  /\ fetches' = [fetches EXCEPT ![c] =
                    [pc |-> "done", result |-> "upstream",
                     from |-> fetches[c].provider.id]]
  /\ UNCHANGED <<providers, gatewayVars, verifierVars,
                 pricingVars, storeOp>>

\* mutant: the primary provider is asked again among the fallbacks
fallbackCandidates_WithPrimary(registry, primaryProvider) == registry

\* providers.filter((p) => p.id !== primaryProvider.id)
fallbackCandidates(registry, primaryProvider) ==
  SelectSeq(registry, LAMBDA p : p.id # primaryProvider.id)

\* the provider asked by fetchFromProvider fails: its failure is counted and
\* fetchWithBestProvider goes on to the next fallback candidate, or returns
\* the error body when none is left
ProviderFails(c) ==
  /\ fetches[c].pc \in {"primary", "fallback"}
  /\ Failures(fetches[c].provider.id) < MaxFailures
  /\ providerHealth' = MapSet(providerHealth, fetches[c].provider.id,
                              Failed(providerHealth, fetches[c].provider.id))
  /\ LET remaining ==
           IF fetches[c].pc = "primary"
           THEN fallbackCandidates(providers, fetches[c].provider)
           ELSE fetches[c].rest
     IN fetches' = [fetches EXCEPT ![c] =
                      IF remaining = <<>>
                      THEN [pc |-> "done", result |-> "providersUnavailable"]
                      ELSE [pc |-> "fallback",
                            provider |-> Head(remaining),
                            rest |-> Tail(remaining),
                            tried |-> Append(fetches[c].tried,
                                             Head(remaining).id)]]
  /\ UNCHANGED <<providers, gatewayVars, verifierVars,
                 pricingVars, storeOp>>

\* the registry entry providers.find returns for an id
FindProvider(id) ==
  providers[CHOOSE i \in 1..Len(providers) :
              /\ providers[i].id = id
              /\ \A j \in 1..(i - 1) : providers[j].id # id]

\* healthCheckProvider(providerId) up to its await, for a registered id
ProbeStarts(c) ==
  /\ fetches[c].pc \in {"idle", "done"}
  /\ \E i \in 1..Len(providers) :
       fetches' = [fetches EXCEPT ![c] =
                     [pc |-> "probe",
                      provider |-> FindProvider(providers[i].id)]]
  /\ UNCHANGED <<providers, providerHealth, gatewayVars, verifierVars,
                 pricingVars, storeOp>>

\* the probed provider answers getHealth
ProbeAnswers(c) ==
  /\ fetches[c].pc = "probe"
  /\ providerHealth' = MapSet(providerHealth, fetches[c].provider.id, Healthy)
  /\ fetches' = [fetches EXCEPT ![c] = [pc |-> "done", result |-> "healthy"]]
  /\ UNCHANGED <<providers, gatewayVars, verifierVars,
                 pricingVars, storeOp>>

\* the probe fails
ProbeFails(c) ==
  /\ fetches[c].pc = "probe"
  /\ Failures(fetches[c].provider.id) < MaxFailures
  /\ providerHealth' = MapSet(providerHealth, fetches[c].provider.id,
                              Failed(providerHealth, fetches[c].provider.id))
  /\ fetches' = [fetches EXCEPT ![c] = [pc |-> "done", result |-> "unhealthy"]]
  /\ UNCHANGED <<providers, gatewayVars, verifierVars,
                 pricingVars, storeOp>>

\* addProviderHandler while the registry has fewer than limit entries:
\* addProvider appends to the registry. Date.now() gives a new value (k is
\* the new position) or the value it gave at the previous addition (k is
\* the position of that one).
AddProviderWithin(limit) ==
  /\ Len(providers) < limit
  /\ \E data \in ProviderData, k \in {Len(providers), Len(providers) + 1} :
       /\ k > Len(DefaultProviders)
       /\ providers' = Append(providers, NewProvider(data, k))
  /\ UNCHANGED <<providerHealth, fetches, gatewayVars, verifierVars,
                 pricingVars, storeOp>>

AddProvider == AddProviderWithin(MaxProviders)

\* what getProviders reports for a provider without an entry in the
\* health Map
Unknown == [status |-> "unknown", consecutiveFailures |-> 0]

\* getProviders(): every registry entry with its health
getProviders(registry, health) ==
  [i \in 1..Len(registry) |->
     [provider |-> registry[i],
      health |-> IF registry[i].id \in DOMAIN health
                 THEN health[registry[i].id] ELSE Unknown]]

\* -------------------------------------------------------- calculatePrice
\* values of process.env: PRICE_PER_QUERY and the override of getBlock,
\* each unset or set, in micro-USDC
Environments ==
  {EmptyMap,
   [v \in {"PRICE_PER_QUERY"} |-> 2000],
   [v \in {"PRICE_GETBLOCK"} |-> 2500],
   [v \in {"PRICE_PER_QUERY", "PRICE_GETBLOCK"} |->
      IF v = "PRICE_GETBLOCK" THEN 2500 ELSE 2000]}

\* methods a validated request can name: with an entry in DEFAULT_PRICES,
\* without one, and names inherited from Object.prototype
PricedMethods ==
  {"getBlock", "getTransaction", "getSignaturesForAddress", "getSlot",
   "getBlockHeight", "getHealth", "getBlockTime", "getVersion", "constructor"}

\* calculatePrice is called
PriceCalled ==
  /\ priceCall = Nil
  /\ \E env \in Environments, method \in PricedMethods,
        slot \in {NoSlot, 0, DeepHistoricalSlot - 1, DeepHistoricalSlot},
        limit \in {0, 10, 11} :
       priceCall' = [env |-> env,
                     body |-> [method |-> method, slot |-> slot,
                               limit |-> limit]]
  /\ priceResult' = Nil
  /\ UNCHANGED <<gatewayVars, verifierVars, providerVars, storeOp>>

\* the call returns
PriceReturns ==
  /\ priceCall # Nil /\ priceResult = Nil
  /\ priceResult' = [price |-> calculatePriceEnv(priceCall.env, priceCall.body)]
  /\ UNCHANGED <<priceCall, gatewayVars, verifierVars, providerVars, storeOp>>

\* --------------------------------------------- PaymentStore, on its own
StoreIds == 1..NStoreIds

\* a call can be made: none is under way
CanCall == storeOp.pc \in {"idle", "done"} /\ storeOp.calls < MaxStoreCalls

\* no operation is under way
StoreIdle == [pc |-> "idle", calls |-> 0]

\* what an operation of the store leaves alone
aroundStore ==
  <<redis, redisUp, initPc, redisEvents, timeVars, nextId, reqVars,
    verifierVars, providerVars, pricingVars>>

StoreFree == storeOp.pc \in {"idle", "done"}

\* the number of operations called so far, the one under way included
CallsAfter == IF StoreFree THEN storeOp.calls + 1 ELSE storeOp.calls

\* mutant: an operation that fell back rejects
Completed_Rethrows(name, p, fellBack, result) ==
  [pc |-> "done", name |-> name, p |-> p, fellBack |-> fellBack,
   threw |-> fellBack, result |-> result, calls |-> CallsAfter]

\* the operation returned; fellBack: a Redis command of it threw and the
\* catch block set useRedis = false
Completed(name, p, fellBack, result) ==
  [pc |-> "done", name |-> name, p |-> p, fellBack |-> fellBack,
   threw |-> FALSE, result |-> result, calls |-> CallsAfter]

\* an operation awaits a Redis command
Awaiting(position, name, p, data) ==
  [pc |-> position, name |-> name, p |-> p, invoice |-> data,
   calls |-> CallsAfter]

\* create(paymentId, data): setex when Redis is in use, else the Map
OpCreate ==
  /\ CanCall
  /\ \E p \in StoreIds :
       LET data == NewInvoice(PRICE_PER_QUERY, "getBlock")
       IN IF useRedis /\ redis
          THEN /\ storeOp' = Awaiting("create_setex", "create", p, data)
               /\ UNCHANGED invoices
          ELSE /\ invoices' = MapSet(invoices, p, data)
               /\ storeOp' = Completed("create", p, FALSE, Nil)
  /\ UNCHANGED <<kv, useRedis, aroundStore>>

OpCreateSetexOk ==
  /\ storeOp.pc = "create_setex" /\ redisUp
  /\ kv' = RedisSetex(storeOp.p, storeOp.invoice)
  /\ storeOp' = Completed("create", storeOp.p, FALSE, Nil)
  /\ UNCHANGED <<invoices, useRedis, aroundStore>>

OpCreateSetexFail ==
  /\ storeOp.pc = "create_setex"
  /\ useRedis' = FALSE
  /\ invoices' = MapSet(invoices, storeOp.p, storeOp.invoice)
  /\ storeOp' = Completed("create", storeOp.p, TRUE, Nil)
  /\ UNCHANGED <<kv, aroundStore>>

\* get(paymentId)
OpGet ==
  /\ CanCall
  /\ \E p \in StoreIds :
       storeOp' = IF useRedis /\ redis
                  THEN Awaiting("get_get", "get", p, Nil)
                  ELSE Completed("get", p, FALSE, MapGet(invoices, p))
  /\ UNCHANGED <<invoices, kv, useRedis, aroundStore>>

OpGetOk ==
  /\ storeOp.pc = "get_get" /\ redisUp
  /\ storeOp' = Completed("get", storeOp.p, FALSE, RedisGet(storeOp.p))
  /\ UNCHANGED <<invoices, kv, useRedis, aroundStore>>

OpGetFail ==
  /\ storeOp.pc = "get_get"
  /\ useRedis' = FALSE
  /\ storeOp' = Completed("get", storeOp.p, TRUE, MapGet(invoices, storeOp.p))
  /\ UNCHANGED <<invoices, kv, aroundStore>>

\* markAsUsed(paymentId): get and setex when Redis is in use and holds the
\* key, else the Map
OpMark ==
  /\ CanCall
  /\ \E p \in StoreIds :
       IF useRedis /\ redis
       THEN /\ storeOp' = Awaiting("mark_get", "markAsUsed", p, Nil)
            /\ UNCHANGED invoices
       ELSE /\ invoices' = MemMarkAsUsed(p)
            /\ storeOp' = Completed("markAsUsed", p, FALSE, Nil)
  /\ UNCHANGED <<kv, useRedis, aroundStore>>

OpMarkGetOk ==
  /\ storeOp.pc = "mark_get" /\ redisUp
  /\ LET data == RedisGet(storeOp.p)
     IN IF data # Nil
        THEN /\ storeOp' = Awaiting("mark_setex", "markAsUsed", storeOp.p,
                                    MarkedCopy(data))
             /\ UNCHANGED invoices
        ELSE /\ invoices' = MemMarkAsUsed(storeOp.p)
             /\ storeOp' = Completed("markAsUsed", storeOp.p, FALSE, Nil)
  /\ UNCHANGED <<kv, useRedis, aroundStore>>

OpMarkGetFail ==
  /\ storeOp.pc = "mark_get"
  /\ useRedis' = FALSE
  /\ invoices' = MemMarkAsUsed(storeOp.p)
  /\ storeOp' = Completed("markAsUsed", storeOp.p, TRUE, Nil)
  /\ UNCHANGED <<kv, aroundStore>>

OpMarkSetexOk ==
  /\ storeOp.pc = "mark_setex" /\ redisUp
  /\ kv' = RedisSetex(storeOp.p, storeOp.invoice)
  /\ storeOp' = Completed("markAsUsed", storeOp.p, FALSE, Nil)
  /\ UNCHANGED <<invoices, useRedis, aroundStore>>

OpMarkSetexFail ==
  /\ storeOp.pc = "mark_setex"
  /\ useRedis' = FALSE
  /\ invoices' = MemMarkAsUsed(storeOp.p)
  /\ storeOp' = Completed("markAsUsed", storeOp.p, TRUE, Nil)
  /\ UNCHANGED <<kv, aroundStore>>

\* delete(paymentId)
OpDelete ==
  /\ CanCall
  /\ \E p \in StoreIds :
       IF useRedis /\ redis
       THEN /\ storeOp' = Awaiting("del", "delete", p, Nil)
            /\ UNCHANGED invoices
       ELSE /\ invoices' = MapDel(invoices, p)
            /\ storeOp' = Completed("delete", p, FALSE, Nil)
  /\ UNCHANGED <<kv, useRedis, aroundStore>>

OpDelOk ==
  /\ storeOp.pc = "del" /\ redisUp
  /\ kv' = MapDel(kv, storeOp.p)
  /\ storeOp' = Completed("delete", storeOp.p, FALSE, Nil)
  /\ UNCHANGED <<invoices, useRedis, aroundStore>>

OpDelFail ==
  /\ storeOp.pc = "del"
  /\ useRedis' = FALSE
  /\ invoices' = MapDel(invoices, storeOp.p)
  /\ storeOp' = Completed("delete", storeOp.p, TRUE, Nil)
  /\ UNCHANGED <<kv, aroundStore>>

\* the keys redis.keys('payment:*') returns
LiveKeys == {p \in DOMAIN kv : now < kv[p].expireAt}

\* the end of getStats with the counts so far and the flag as it is then:
\* the Map is counted on top when useRedis is false
StatsResult(total, used, unused, ur) ==
  LET usedInMap == Cardinality({p \in DOMAIN invoices : invoices[p].used})
      unusedInMap == Cardinality({p \in DOMAIN invoices : ~invoices[p].used})
  IN [total |-> IF ur THEN total ELSE Cardinality(DOMAIN invoices),
      used |-> IF ur THEN used ELSE used + usedInMap,
      unused |-> IF ur THEN unused ELSE unused + unusedInMap,
      backend |-> IF ur THEN "redis" ELSE "memory"]

\* getStats awaits redis.get of one of the keys
Counting(total, used, unused, rest) ==
  [pc |-> "stats_get", name |-> "getStats", total |-> total, used |-> used,
   unused |-> unused, rest |-> rest, calls |-> CallsAfter]

\* getStats()
OpStats ==
  /\ CanCall
  /\ storeOp' = IF useRedis /\ redis
                THEN [pc |-> "stats_keys", name |-> "getStats", total |-> 0,
                      used |-> 0, unused |-> 0, rest |-> {},
                      calls |-> CallsAfter]
                ELSE Completed("getStats", 0, FALSE,
                               StatsResult(0, 0, 0, useRedis))
  /\ UNCHANGED <<invoices, kv, useRedis, aroundStore>>

\* redis.keys answers
OpStatsKeysOk ==
  /\ storeOp.pc = "stats_keys" /\ redisUp
  /\ storeOp' = IF LiveKeys = {}
                THEN Completed("getStats", 0, FALSE,
                               StatsResult(0, 0, 0, useRedis))
                ELSE Counting(Cardinality(LiveKeys), 0, 0, LiveKeys)
  /\ UNCHANGED <<invoices, kv, useRedis, aroundStore>>

\* redis.get of the next key answers
OpStatsGetOk ==
  /\ storeOp.pc = "stats_get" /\ redisUp
  /\ \E key \in storeOp.rest :
       LET data == RedisGet(key)
           used == storeOp.used + (IF data # Nil THEN
                                     (IF data.used THEN 1 ELSE 0) ELSE 0)
           unused == storeOp.unused + (IF data # Nil THEN
                                         (IF data.used THEN 0 ELSE 1) ELSE 0)
           rest == storeOp.rest \ {key}
       IN storeOp' = IF rest = {}
                     THEN Completed("getStats", 0, FALSE,
                                    StatsResult(storeOp.total, used, unused,
                                                useRedis))
                     ELSE Counting(storeOp.total, used, unused, rest)
  /\ UNCHANGED <<invoices, kv, useRedis, aroundStore>>

\* redis.keys or redis.get of getStats throws
OpStatsFail ==
  /\ storeOp.pc \in {"stats_keys", "stats_get"}
  /\ useRedis' = FALSE
  /\ storeOp' = Completed("getStats", 0, TRUE,
                          StatsResult(storeOp.total, storeOp.used,
                                      storeOp.unused, FALSE))
  /\ UNCHANGED <<invoices, kv, aroundStore>>

StoreOps ==
  \/ OpCreate \/ OpCreateSetexOk \/ OpCreateSetexFail
  \/ OpGet \/ OpGetOk \/ OpGetFail
  \/ OpMark \/ OpMarkGetOk \/ OpMarkGetFail \/ OpMarkSetexOk \/ OpMarkSetexFail
  \/ OpDelete \/ OpDelOk \/ OpDelFail
  \/ OpStats \/ OpStatsKeysOk \/ OpStatsGetOk \/ OpStatsFail

\* the gateway after construction of the PaymentStore
GatewayInit ==
  /\ invoices = EmptyMap
  /\ kv = EmptyMap
  /\ useRedis = FALSE
  /\ redis = TRUE
  /\ redisUp = FALSE
  /\ initPc = "ping"
  /\ redisEvents = 0
  /\ now = 0
  /\ nextSweep = cleanupInterval
  /\ nextId = 1
  /\ pc = [r \in Requests |-> "idle"]
  /\ req = [r \in Requests |-> Nil]
  /\ invoice = [r \in Requests |-> Nil]
  /\ pending = [r \in Requests |-> Nil]
  /\ challenge = [r \in Requests |-> Nil]
  /\ resp = [r \in Requests |-> Nil]
  /\ trail = [r \in Requests |-> {}]

Init ==
  /\ GatewayInit
  /\ verifyCall = Nil
  /\ verifyResult = Nil
  /\ providers = DefaultProviders
  /\ providerHealth = EmptyMap
  /\ fetches = [c \in Calls |-> Idle]
  /\ priceCall = Nil
  /\ priceResult = Nil
  /\ storeOp = StoreIdle

\* the registry after the additions ds, in this order
Registry(ds) ==
  DefaultProviders
    \o [i \in 1..Len(ds) |-> NewProvider(ds[i], Len(DefaultProviders) + i)]

\* the ids of a registry
ProviderIds(registry) == {registry[i].id : i \in 1..Len(registry)}

\* the health a provider has after n failures in a row
AfterFailures(n) == [status |-> "unhealthy", consecutiveFailures |-> n]

\* a registry after some additions and a health Map in which some providers
\* were never called and the others stand at the limit or one past it
SelectionInit ==
  /\ GatewayInit
  /\ verifyCall = Nil
  /\ verifyResult = Nil
  /\ \E n \in 0..MaxAdded : \E ds \in [1..n -> ProviderData] :
       providers = Registry(ds)
  /\ \E called \in SUBSET ProviderIds(providers) :
       providerHealth \in [called -> {AfterFailures(FailureLimit),
                                      AfterFailures(FailureLimit + 1)}]
  /\ fetches = [c \in Calls |-> Idle]
  /\ priceCall = Nil
  /\ priceResult = Nil
  /\ storeOp = StoreIdle

\* --------------------------------- handleRpc with fetchWithBestProvider
\* the requests of a run in which every awaited call is followed to its end
LiveRequests == 1..NLive

\* mutant: the forwarded call is started again after it has returned
ProxyFetch_Restarts(r) ==
  /\ pc[r] = "proxy"
  /\ FetchStarts(r) \/ ProviderAnswers(r) \/ ProviderFails(r)

\* fetchFromOldFaithful(req.body) while handleRpc awaits Promise.all: the
\* call of request r is call r of the provider service
ProxyFetch(r) ==
  /\ pc[r] = "proxy"
  /\ \/ fetches[r].pc = "idle" /\ FetchStarts(r)
     \/ ProviderAnswers(r) \/ ProviderFails(r)

\* Promise.all settles once fetchWithBestProvider has returned; the body of
\* the 200 is what it returned
ProxyReturns(r) ==
  /\ fetches[r].pc = "done"
  /\ ProxyDone(r)
  /\ fetches[r].result \in trail'[r]

\* a request arrives
Handles(r) == StartUnpaid(r) \/ RejectReceipt(r) \/ StartPaid(r)

\* an awaited call of request r returns or fails and handleRpc goes on
Step(r) ==
  \/ GetOk(r) \/ GetFail(r) \/ CreateSetexOk(r) \/ CreateSetexFail(r)
  \/ MarkGetOk(r) \/ MarkGetFail(r) \/ MarkSetexOk(r) \/ MarkSetexFail(r)
  \/ VerifyDone(r) \/ ProxyFetch(r) \/ ProxyReturns(r)

\* the request pipeline, whatever the backend
Pipeline ==
  \/ \E r \in PipelineRequests : StartUnpaid(r)
  \/ \E r \in PipelineRequests : RejectReceipt(r)
  \/ \E r \in PipelineRequests : StartPaid(r)
  \/ \E r \in PipelineRequests : VerifyDone(r)
  \/ \E r \in PipelineRequests : ProxyDone(r)

\* the outcomes of the Redis commands the store awaits
RedisReplies ==
  \/ \E r \in PipelineRequests : GetOk(r)
  \/ \E r \in PipelineRequests : GetFail(r)
  \/ \E r \in PipelineRequests : CreateSetexOk(r)
  \/ \E r \in PipelineRequests : CreateSetexFail(r)
  \/ \E r \in PipelineRequests : MarkGetOk(r)
  \/ \E r \in PipelineRequests : MarkGetFail(r)
  \/ \E r \in PipelineRequests : MarkSetexOk(r)
  \/ \E r \in PipelineRequests : MarkSetexFail(r)

RedisEvents == InitPingOk \/ RedisConnect \/ RedisError \/ RedisClose

NextClock == InitPingFail \/ Tick \/ Cleanup \/ Pipeline

NextBackends == InitPingFail \/ RedisEvents \/ RedisReplies \/ Pipeline

NextVerifier == VerifierCalled \/ VerifierReturns

NextProviders ==
  \/ \E c \in Calls : FetchStarts(c)
  \/ \E c \in Calls : ProviderAnswers(c)
  \/ \E c \in Calls : ProviderFails(c)
  \/ \E c \in Calls : ProbeStarts(c)
  \/ \E c \in Calls : ProbeAnswers(c)
  \/ \E c \in Calls : ProbeFails(c)
  \/ AddProvider

\* one selection at a time
NextSelection == FetchStarts(1)

\* additions to the registry and health probes, one probe at a time
NextRegistry ==
  \/ AddProviderWithin(MaxRegistry)
  \/ ProbeStarts(1) \/ ProbeAnswers(1) \/ ProbeFails(1)

NextPricing == PriceCalled \/ PriceReturns

NextStore == InitPingFail \/ RedisEvents \/ Tick \/ Cleanup \/ StoreOps

\* the gateway over both backends with the provider service behind it
NextAnswers ==
  \/ InitPingFail \/ RedisEvents
  \/ \E r \in LiveRequests : Handles(r)
  \/ \E r \in LiveRequests : Step(r)

\* the gateway on the Map (the first ping is not answered) with the clock
\* stopped, over well-formed receipts
\* whose signature may have been presented before
NextReceipts ==
  \/ \E r \in Requests : StartUnpaid(r)
  \/ \E r \in Requests : StartPaidAgain(r)
  \/ \E r \in Requests : VerifyDone(r)
  \/ \E r \in Requests : ProxyDone(r)

\* the gateway on the Map with the clock stopped, over well-formed receipts
\* and the bodies they come with
NextPaidBodies ==
  \/ \E r \in PipelineRequests : StartUnpaid(r)
  \/ \E r \in PipelineRequests : StartPaidFor(r)
  \/ \E r \in PipelineRequests : VerifyDone(r)
  \/ \E r \in PipelineRequests : ProxyDone(r)

Next ==
  \/ NextClock \/ NextBackends \/ NextVerifier \/ NextProviders
  \/ NextPricing \/ NextStore \/ NextAnswers \/ NextReceipts
  \/ NextPaidBodies

\* the gateway on the in-memory backend (Redis never connects), clock running
SpecClock == Init /\ [][NextClock]_vars

\* the gateway over both backends within one TTL period (clock stopped)
SpecBackends == Init /\ [][NextBackends]_vars

\* the same with every awaited call returning: a Redis command is answered
\* or fails, verifyPayment returns, a provider answers or times out
SpecAnswers ==
  Init /\ [][NextAnswers]_vars /\ \A r \in LiveRequests : WF_vars(Step(r))

\* receipts that present a transaction again, on the in-memory backend
SpecReceipts == Init /\ [][NextReceipts]_vars

\* paid requests with their bodies, on the in-memory backend
SpecPaidBodies == Init /\ [][NextPaidBodies]_vars

\* verifyPayment on its own, over the answers of facilitator and chain
SpecVerifier == Init /\ [][NextVerifier]_vars

\* the provider registry: forwarded calls, probes and additions
SpecProviders == Init /\ [][NextProviders]_vars

\* selectBestProvider on its own, over registries and health Maps
SpecSelection == SelectionInit /\ [][NextSelection]_vars

\* the registry on its own: additions and probes
SpecRegistry == Init /\ [][NextRegistry]_vars

\* calculatePrice on its own, over methods, params and environments
SpecPricing == Init /\ [][NextPricing]_vars

\* the operations of the PaymentStore, one call at a time, over both
\* backends, with connection events, failing commands and the clock
SpecStore == Init /\ [][NextStore]_vars

Spec == Init /\ [][Next]_vars

\* ================================================================ claims
Done(r) == pc[r] = "done"

\* r's handler ends in this step
Ends(r) == pc[r] # "done" /\ pc'[r] = "done"

\* the invoice a backend holds under p, given the Map, the Redis server
\* and the clock
Held(mem, red, t, p) ==
  IF p \in DOMAIN mem THEN mem[p]
  ELSE IF p \in DOMAIN red /\ t < red[p].expireAt THEN red[p].value
  ELSE Nil

\* some backend holds the invoice p with used = true
HoldsUsed(mem, red, t, p) ==
  Held(mem, red, t, p) # Nil /\ Held(mem, red, t, p).used

\* requests that completed with HTTP 200 for paymentId p
Served(p) ==
  {r \in Requests : Done(r) /\ resp[r].status = 200 /\ req[r].paymentId = p}

\* C1: for every paymentId, at most one of the requests presenting it
\* completes with HTTP 200, whatever the interleaving of the handlers.
C1_AtMostOne200 == \A p \in Ids : Cardinality(Served(p)) <= 1

\* C2: a request that presents a paymentId after a request for that
\* paymentId completed with 200, and before the invoice expired, ends with
\* 402 payment_already_used without verification, upstream call or new
\* invoice.
C2_ReplayRejected ==
  \A r \in Requests :
    (Done(r) /\ "replay" \in trail[r] /\ "late" \notin trail[r])
      => /\ resp[r].status = 402
         /\ resp[r].error = "payment_already_used"
         /\ trail[r] \cap {"verify", "proxy", "mint"} = {}

\* C3: whenever a request has started or finished its upstream proxy call,
\* the invoice store holds its invoice with used = true.
C3_ProxyAfterMarkCommitted ==
  \A r \in Requests :
    "proxy" \in trail[r] => HoldsUsed(invoices, kv, now, req[r].paymentId)

\* markAsUsed, called by r after a successful verification, returns in
\* this step
MarkReturns(r) ==
  /\ pc[r] \in {"verify", "mark_get", "mark_setex"}
  /\ "mark" \in trail'[r]
  /\ pc'[r] \notin {"mark_get", "mark_setex"}

\* C4: when the mark-used step of a verified request returns without
\* used = true being recorded for its invoice, the request ends with HTTP
\* 500 internal_error and starts no upstream proxy call.
C4_MarkFailureGives500 ==
  [][\A r \in Requests :
       (MarkReturns(r)
          /\ ~HoldsUsed(invoices', kv', now', req[r].paymentId))
         => /\ pc'[r] = "done"
            /\ resp'[r].status = 500
            /\ resp'[r].error = "internal_error"
            /\ "proxy" \notin trail'[r]]_vars

C6_UnpaidGetsChallenge ==
  [][\A r \in Requests :
       (Ends(r) /\ ~req'[r].hdr)
         => /\ resp'[r].status = 402
            /\ resp'[r].error = "payment_required"
            /\ LET ch == challenge'[r]
                   inv == Held(invoices', kv', now', ch.paymentId)
               IN /\ inv # Nil
                  /\ ~inv.used
                  /\ inv.amount = ch.amount
                  /\ ch.amount = calculatePrice(req'[r].body)]_vars

\* unpaid requests were answered with invoices in Redis and in the Map,
\* one of them priced with a multiplier
C6_Witness ==
  \E r1, r2 \in Requests :
    /\ Done(r1) /\ ~req[r1].hdr /\ challenge[r1].paymentId \in DOMAIN kv
    /\ Done(r2) /\ ~req[r2].hdr /\ challenge[r2].paymentId \in DOMAIN invoices
    /\ challenge[r1].amount # PRICE_PER_QUERY

\* requests that minted an invoice
Minters == {r \in Requests : challenge[r] # Nil}

\* C7: the paymentIds of any two minted invoices differ, and two unpaid
\* requests with the same body get challenges with the same amount,
\* paymentAddress and method.
C7_DistinctPaymentIds ==
  \A r1, r2 \in Minters :
    r1 # r2 =>
      /\ challenge[r1].paymentId # challenge[r2].paymentId
      /\ (~req[r1].hdr /\ ~req[r2].hdr /\ req[r1].body = req[r2].body)
           => /\ challenge[r1].amount = challenge[r2].amount
              /\ challenge[r1].paymentAddress = challenge[r2].paymentAddress
              /\ challenge[r1].method = challenge[r2].method

\* two identical unpaid requests were answered
C7_Witness ==
  \E r1, r2 \in Requests :
    /\ r1 # r2 /\ Done(r1) /\ Done(r2)
    /\ ~req[r1].hdr /\ ~req[r2].hdr /\ req[r1].body = req[r2].body

\* C8: a request whose invoice lookup returned nothing ends with 402
\* payment_required "Payment ID not found or expired" and an unused invoice
\* stored under a paymentId no earlier invoice had; it neither verifies nor
\* proxies, and none of its steps changes a stored invoice.
C8_NotFoundGetsFreshChallenge ==
  [][\A r \in Requests :
       /\ (Ends(r) /\ "nil" \in trail'[r])
            => /\ resp'[r] = Response(402, "payment_required",
                                      "Payment ID not found or expired")
               /\ trail'[r] \cap {"verify", "proxy"} = {}
               /\ LET id == challenge'[r].paymentId
                      inv == Held(invoices', kv', now', id)
                  IN /\ id # req'[r].paymentId
                     /\ \A q \in Minters \ {r} : challenge[q].paymentId # id
                     /\ inv # Nil /\ ~inv.used
       /\ (pc'[r] # pc[r] /\ "nil" \in trail'[r])
            => /\ \A p \in DOMAIN invoices :
                    p \in DOMAIN invoices' /\ invoices'[p] = invoices[p]
               /\ \A p \in DOMAIN kv :
                    p \in DOMAIN kv' /\ kv'[p] = kv[p]]_vars

\* a receipt for a paymentId the gateway issued found no invoice in the
\* active backend and was answered with a challenge
C8_Witness ==
  \E r \in Requests :
    /\ Done(r) /\ "nil" \in trail[r]
    /\ req[r].paymentId \in KnownIds
    /\ resp[r].error = "payment_required"

\* C9: paymentStore.get never returns an invoice created more than the TTL
\* before the lookup.
C9_GetNilAfterTTL == \A r \in Requests : "stale" \notin trail[r]

\* C10: a request that presents, after its expiry, the paymentId of an
\* invoice nobody consumed ends with 402 payment_required and a new
\* paymentId; it is never served and never marks the invoice used.
C10_ExpiredUnusable ==
  \A r \in Requests :
    (Done(r) /\ "late" \in trail[r] /\ "replay" \notin trail[r])
      => /\ resp[r].status = 402
         /\ resp[r].error = "payment_required"
         /\ "mark" \notin trail[r]
         /\ challenge[r] # Nil
         /\ challenge[r].paymentId # req[r].paymentId

\* r's call of verifyPayment returns in this step
VerifyReturns(r) == pc[r] = "verify" /\ pc'[r] # "verify"

\* C11: when the verifier returns valid = false the request ends with 402
\* payment_invalid whose details are the verifier's reason, no stored
\* invoice changes, and neither markAsUsed nor the upstream proxy nor the
\* settlement is started for the request.
C11_InvalidVerification ==
  [][\A r \in Requests :
       (VerifyReturns(r) /\ ~verifyResult'.threw /\ ~verifyResult'.valid)
         => /\ pc'[r] = "done"
            /\ resp'[r].status = 402
            /\ resp'[r].error = "payment_invalid"
            /\ resp'[r].details = verifyResult'.reason
            /\ invoices' = invoices
            /\ kv' = kv
            /\ trail'[r] \cap {"mark", "proxy", "settle"} = {}]_vars

\* a receipt was turned down as invalid with the reason of the chain
\* lookup, and the same paymentId was served to a later request
C11_Witness ==
  \E r1, r2 \in Requests :
    /\ r1 < r2 /\ Done(r1) /\ Done(r2)
    /\ resp[r1].error = "payment_invalid"
    /\ resp[r1].details = "Transaction not found on chain"
    /\ req[r2].hdr /\ req[r2].paymentId = req[r1].paymentId
    /\ resp[r2].status = 200

\* C12: a header that is not base64 of JSON ends the request with 402
\* invalid_payment_header, a payload without txSignature or with a
\* paymentId that is no UUID ends it with 402 invalid_payment_payload, and
\* in both cases no invoice is read, created or marked and nothing is
\* verified.
C12_MalformedReceipt ==
  \A r \in Requests :
    (Done(r) /\ "turnedDown" \in trail[r])
      => /\ resp[r].status = 402
         /\ resp[r].error = IF req[r].receipt = "garbled"
                            THEN "invalid_payment_header"
                            ELSE "invalid_payment_payload"
         /\ trail[r] \cap {"lookup", "mint", "verify", "mark"} = {}

C14_ReceiptHeaderOn200 ==
  \A r \in Requests :
    Done(r)
      => /\ resp[r].header # Nil <=> resp[r].status = 200
         /\ resp[r].header # Nil
              => /\ req[r].hdr
                 /\ resp[r].header.txSignature = req[r].txSignature
                 /\ resp[r].header.paymentId = req[r].paymentId

\* two receipts with different signatures were served, another request
\* ended without the header
C14_Witness ==
  \E r1, r2, r3 \in Requests :
    /\ Done(r1) /\ Done(r2) /\ Done(r3)
    /\ resp[r1].status = 200 /\ resp[r2].status = 200
    /\ resp[r1].header.txSignature # resp[r2].header.txSignature
    /\ resp[r3].status # 200

\* C16: verifyPayment returns and never throws, and a request whose
\* verification stays inconclusive (facilitator unreachable, chain client
\* failing, malformed transaction) ends with 402 payment_invalid.
C16_VerifierFailsClosed ==
  [][\A r \in Requests :
       VerifyReturns(r)
         => /\ ~verifyResult'.threw
            /\ Inconclusive(verifyCall')
                 => /\ ~verifyResult'.valid
                    /\ pc'[r] = "done"
                    /\ resp'[r].status = 402
                    /\ resp'[r].error = "payment_invalid"]_vars

\* requests ended as invalid because the facilitator was unreachable, and
\* because the chain client failed
C16_Witness ==
  \E r1, r2 \in Requests :
    /\ Done(r1) /\ resp[r1].error = "payment_invalid"
    /\ resp[r1].details = "Verification error"
    /\ Done(r2) /\ resp[r2].error = "payment_invalid"
    /\ resp[r2].details = "On-chain verification failed"

\* the on-chain acceptance rule: the transaction exists, did not fail, has
\* non-empty pre and post tables, and some post entry with a pre entry of
\* the same accountIndex has the required mint, a positive delta and a
\* delta less than Tolerance away from the expected amount
ChainAccepts(call) ==
  /\ call.chain.kind = "tx"
  /\ Len(call.chain.pre) > 0 /\ Len(call.chain.post) > 0
  /\ \E i \in DOMAIN call.chain.post, j \in DOMAIN call.chain.pre :
       LET post == call.chain.post[i]
           pre == call.chain.pre[j]
           delta == post.amount - pre.amount
       IN /\ pre.accountIndex = post.accountIndex
          /\ post.mint = call.mint
          /\ delta > 0
          /\ delta - call.expectedAmount < Tolerance
          /\ call.expectedAmount - delta < Tolerance

\* C15: verifyPaymentOnChain (verifyPayment without facilitator), called
\* with a recipient that is a public key, returns valid = true exactly when
\* the on-chain acceptance rule holds; a difference of 99 base units is
\* accepted, a difference of 100 is not.
C15_OnChainAcceptance ==
  (verifyResult # Nil /\ verifyCall.facilitator = "none"
     /\ verifyCall.recipient # NoWallet)
    => (verifyResult.valid <=> ChainAccepts(verifyCall))

\* C17: with a facilitator configured, verifyPayment accepts when the
\* facilitator says valid, and returns the result of the on-chain algorithm
\* when the facilitator says invalid or its call raises an exception.
C17_FacilitatorFallsThrough ==
  (verifyResult # Nil /\ verifyCall.facilitator # "none")
    => IF verifyCall.facilitator = "verified"
       THEN verifyResult.valid
       ELSE verifyResult = verifyPaymentOnChain(verifyCall.chain,
                                                verifyCall.expectedAmount,
                                                verifyCall.mint,
                                                verifyCall.recipient)

\* c's fetchWithBestProvider selects its primary provider in this step
Selects(c) == fetches[c].pc \in {"idle", "done"} /\ fetches'[c].pc = "primary"

\* p passes the filters of a selection with these options
PassesFilters(p, options) ==
  /\ Failures(p.id) <= 3
  /\ options.requireHistorical => p.historical

\* C18: selectBestProvider returns a registered provider; whenever some
\* provider has at most 3 consecutive failures and, if requireHistorical is
\* set, the 'historical' feature, the provider returned is such a one (3
\* failures still pass, 4 do not); when none is, it returns a provider all
\* the same.
C18_SelectionFilters ==
  [][\A c \in Calls :
       Selects(c) =>
         LET p == fetches'[c].provider
             options == fetches'[c].options
         IN /\ \E i \in 1..Len(providers) : providers[i] = p
            /\ (\E i \in 1..Len(providers) :
                  PassesFilters(providers[i], options))
                 => PassesFilters(p, options)]_vars

\* a provider at 3 failures was selected over a better-scored one at 4
C18_Witness ==
  \E c \in Calls :
    /\ fetches[c].pc = "primary"
    /\ Failures(fetches[c].provider.id) = 3
    /\ \E i \in 1..Len(providers) :
         /\ Failures(providers[i].id) = 4
         /\ fetches[c].options.requireHistorical => providers[i].historical
         /\ Score(providers[i], fetches[c].options)
              > Score(fetches[c].provider, fetches[c].options)

\* C19: the provider selectBestProvider returns has the greatest score of
\* the active formula among the candidates, and among the candidates of that
\* score it is the one that entered the registry first.
C19_BestScoreFirstInserted ==
  [][\A c \in Calls :
       Selects(c) =>
         LET p == fetches'[c].provider
             options == fetches'[c].options
             candidates == Candidates(providers, providerHealth, options)
         IN \E i \in 1..Len(candidates) :
              /\ candidates[i] = p
              /\ \A j \in 1..Len(candidates) :
                   Score(candidates[j], options) <= Score(p, options)
              /\ \A j \in 1..(i - 1) :
                   Score(candidates[j], options) < Score(p, options)]_vars

\* the provider selected shares the greatest score with a later candidate
C19_Witness ==
  \E c \in Calls :
    /\ fetches[c].pc = "primary"
    /\ LET options == fetches[c].options
           candidates == Candidates(providers, providerHealth, options)
       IN \E i, j \in 1..Len(candidates) :
            /\ i < j
            /\ candidates[i] = fetches[c].provider
            /\ Score(candidates[j], options)
                 = Score(fetches[c].provider, options)

\* the provider call c awaits is settled in this step
Settles(c) ==
  /\ fetches[c].pc \in {"primary", "fallback", "probe"}
  /\ fetches'[c] # fetches[c]

\* ... by an answer of the provider
Succeeds(c) ==
  /\ Settles(c)
  /\ fetches'[c].pc = "done"
  /\ fetches'[c].result \in {"upstream", "healthy"}

\* C20: whatever the interleaving of forwarded calls and probes, a call the
\* provider answers leaves its health at healthy with consecutiveFailures 0,
\* a call that fails leaves it at unhealthy with consecutiveFailures one
\* above what it was, and no other provider's health changes.
C20_HealthUpdates ==
  [][\A c \in Calls :
       Settles(c) =>
         LET id == fetches[c].provider.id
         IN /\ id \in DOMAIN providerHealth'
            /\ Succeeds(c) =>
                 /\ providerHealth'[id].status = "healthy"
                 /\ providerHealth'[id].consecutiveFailures = 0
            /\ ~Succeeds(c) =>
                 /\ providerHealth'[id].status = "unhealthy"
                 /\ providerHealth'[id].consecutiveFailures = Failures(id) + 1
            /\ \A i \in 1..Len(providers) :
                 providers[i].id # id =>
                   MapGet(providerHealth', providers[i].id)
                     = MapGet(providerHealth, providers[i].id)]_vars

\* one forwarded call has left a provider for its fallback, the failure is
\* counted, and another call or probe still awaits that provider
C20_Witness ==
  \E c, d \in Calls :
    /\ fetches[c].pc = "fallback"
    /\ fetches[d].pc \in {"primary", "probe"}
    /\ fetches[d].provider.id # fetches[c].provider.id
    /\ \A i \in 1..Len(fetches[c].rest) :
         fetches[c].rest[i].id # fetches[d].provider.id
    /\ Failures(fetches[d].provider.id) = 1
    /\ providerHealth[fetches[d].provider.id].status = "unhealthy"

\* the ids of the registry other than id, in registry order
OtherIds(id) ==
  LET others == SelectSeq(providers, LAMBDA p : p.id # id)
  IN [i \in 1..Len(others) |-> others[i].id]

\* C21: fetchWithBestProvider asks the selected primary provider first.
\* When the provider it awaits fails, that failure is counted once and the
\* next provider asked is the next of the registry, in insertion order,
\* the primary left out, so that none is asked twice; the call gives up only
\* after the fallbacks.  When a provider answers, the call returns that
\* provider's body and the provider's consecutiveFailures is 0.
C21_FailoverInRegistryOrder ==
  [][\A c \in Calls :
       /\ Selects(c) =>
            /\ fetches'[c].provider
                 = selectBestProvider(providers, providerHealth,
                                      fetches'[c].options)
            /\ fetches'[c].tried = <<fetches'[c].provider.id>>
       /\ (Settles(c) /\ fetches[c].pc # "probe") =>
            LET id == fetches[c].provider.id
                tried == fetches[c].tried
                others == OtherIds(tried[1])
            IN /\ tried[Len(tried)] = id
               /\ Tail(tried) = SubSeq(others, 1, Len(tried) - 1)
               /\ IF Succeeds(c)
                  THEN /\ fetches'[c].from = id
                       /\ providerHealth'[id].consecutiveFailures = 0
                  ELSE /\ providerHealth'[id].consecutiveFailures
                            = Failures(id) + 1
                       /\ IF fetches'[c].pc = "fallback"
                          THEN /\ Len(tried) <= Len(others)
                               /\ fetches'[c].provider.id = others[Len(tried)]
                               /\ fetches'[c].tried
                                    = Append(tried, others[Len(tried)])
                          ELSE /\ fetches'[c].result = "providersUnavailable"
                               /\ Len(tried) >= Len(DefaultProviders)]_vars

\* the primary provider failed once, the first fallback answered: the call
\* returned the fallback's body, the primary stands at one failure, the
\* fallback at none
C21_Witness ==
  \E c \in Calls :
    /\ fetches[c].pc = "done"
    /\ fetches[c].result = "upstream"
    /\ fetches[c].from = "solana-devnet-public"
    /\ Failures("triton-old-faithful") = 1
    /\ providerHealth["solana-devnet-public"].consecutiveFailures = 0
    /\ DOMAIN providerHealth
         = {"triton-old-faithful", "solana-devnet-public"}

TablePrices == {DEFAULT_PRICES(method) : method \in MethodsWithEntry} \cup {1000}

\* the one multiplier, in tenths, the pricing rules give a request
RuleMultiplier(body) ==
  IF body.method \in {"getBlock", "getTransaction"}
       /\ body.slot # NoSlot /\ body.slot < 100000 THEN 15
  ELSE IF body.method = "getSignaturesForAddress" /\ body.limit > 10 THEN 13
  ELSE IF body.method \in {"getSlot", "getBlockHeight"} THEN 8
  ELSE 10

\* C23: without overrides, calculatePrice(method, params) is the method's
\* entry of the pricing table (the default entry for a method without one)
\* times the one multiplier of the rules: 1.5 for getBlock or
\* getTransaction below slot 100000, 1.3 for getSignaturesForAddress with a
\* limit above 10, 0.8 for getSlot or getBlockHeight, 1.0 otherwise; it is
\* always a product of a table entry and a multiplier.
C23_PriceOfTableAndMultiplier ==
  (priceResult # Nil /\ priceCall.env = EmptyMap)
    => LET body == priceCall.body
           base == IF body.method \in MethodsWithEntry
                   THEN DEFAULT_PRICES(body.method) ELSE 1000
       IN /\ 10 * priceResult.price = base * RuleMultiplier(body)
          /\ \E entry \in TablePrices, multiplier \in {8, 10, 13, 15} :
               10 * priceResult.price = entry * multiplier

\* the base price the configuration asks for: the override of the method,
\* else its table entry, else PRICE_PER_QUERY (0.001 when that is unset)
ConfiguredBase(env, method) ==
  IF EnvVar(method) \in DOMAIN env THEN env[EnvVar(method)]
  ELSE IF method \in MethodsWithEntry THEN DEFAULT_PRICES(method)
  ELSE IF "PRICE_PER_QUERY" \in DOMAIN env THEN env["PRICE_PER_QUERY"]
  ELSE PRICE_PER_QUERY

\* C24: the price of a challenge is built on the override of the method
\* when one is configured, else on the method's entry of the pricing table,
\* and for a method without an entry on the configured PRICE_PER_QUERY
\* (methods named like a property of Object.prototype are left to C23).
C24_ConfiguredBasePrice ==
  (priceResult # Nil /\ priceCall.body.method \notin ObjectPrototype)
    => 10 * priceResult.price
         = ConfiguredBase(priceCall.env, priceCall.body.method)
             * RuleMultiplier(priceCall.body)

\* a Redis command of the store's operation under way throws in this step
KvFails ==
  /\ ~StoreFree
  /\ storeOp'.pc = "done"
  /\ storeOp'.fellBack

\* C25: no operation of the store raises; when a Redis command of create,
\* get, markAsUsed, delete or getStats fails, the operation returns in the
\* same step, useRedis is false from then on and the operation has worked on
\* the in-memory Map.
C25_KvFailureFallsBack ==
  [][/\ storeOp'.pc = "done" => ~storeOp'.threw
     /\ KvFails =>
          /\ ~useRedis'
          /\ kv' = kv
          /\ storeOp.name = "create" =>
               /\ storeOp.p \in DOMAIN invoices'
               /\ invoices'[storeOp.p] = storeOp.invoice
          /\ storeOp.name = "get" =>
               /\ storeOp'.result = MapGet(invoices, storeOp.p)
               /\ invoices' = invoices
          /\ storeOp.name = "markAsUsed" =>
               /\ DOMAIN invoices' = DOMAIN invoices
               /\ storeOp.p \in DOMAIN invoices => invoices'[storeOp.p].used
          /\ storeOp.name = "delete" => storeOp.p \notin DOMAIN invoices'
          /\ storeOp.name = "getStats" =>
               /\ storeOp'.result.backend = "memory"
               /\ storeOp'.result.total = Cardinality(DOMAIN invoices)]_vars

\* setex of create threw while Redis held another invoice: the call
\* returned and the new invoice is in the Map
C25_Witness ==
  /\ storeOp.pc = "done" /\ storeOp.name = "create" /\ storeOp.fellBack
  /\ ~storeOp.threw
  /\ ~useRedis
  /\ storeOp.p \in DOMAIN invoices
  /\ LiveKeys # {}

\* markAsUsed(p) returns in this step
StoreMarkReturns ==
  /\ storeOp'.pc = "done" /\ storeOp'.name = "markAsUsed"
  /\ storeOp' # storeOp

\* the paymentId of the call that starts or goes on in this step
CalledId == IF StoreFree THEN storeOp'.p ELSE storeOp.p

\* C26: markAsUsed(p) on an invoice that is already used leaves used = true
\* and leaves usedAt as it was.
C26_MarkUsedIdempotent ==
  [][StoreMarkReturns =>
       LET p == CalledId
           before == Held(invoices, kv, now, p)
           after == Held(invoices', kv', now', p)
       IN (before # Nil /\ before.used /\ after # Nil)
            => /\ after.used
               /\ after.usedAt = before.usedAt]_vars

\* C27: whatever the backend, and also when Redis fails while getStats
\* counts, the result of getStats has total = used + unused, and total and
\* used are the numbers of invoices stored and of used invoices stored in
\* the backend the result names.
C27_StatsAddUp ==
  [][(storeOp'.pc = "done" /\ storeOp'.name = "getStats"
        /\ storeOp' # storeOp)
       => LET stats == storeOp'.result
          IN /\ stats.total = stats.used + stats.unused
             /\ stats.backend = "memory" =>
                  /\ stats.total = Cardinality(DOMAIN invoices)
                  /\ stats.used
                       = Cardinality({p \in DOMAIN invoices :
                                        invoices[p].used})
             /\ stats.backend = "redis" =>
                  /\ stats.total = Cardinality(LiveKeys)
                  /\ stats.used
                       = Cardinality({p \in LiveKeys : kv[p].value.used})]_vars

\* C28: once initRedis has finished and the store works on the in-memory
\* Map (useRedis is false), useRedis stays false: the store does not go
\* back to Redis by itself.
C28_NoReturnToRedis ==
  [][(initPc = "done" /\ ~useRedis) => ~useRedis']_vars

\* the invoices of the Map and of Redis other than p are the same after
\* the step
OthersUnchanged(p) ==
  /\ \A q \in (DOMAIN invoices \cup DOMAIN invoices') \ {p} :
       /\ q \in DOMAIN invoices /\ q \in DOMAIN invoices'
       /\ invoices'[q] = invoices[q]
  /\ \A q \in (DOMAIN kv \cup DOMAIN kv') \ {p} :
       /\ q \in DOMAIN kv /\ q \in DOMAIN kv'
       /\ kv'[q] = kv[q]

StoreCreateReturns ==
  /\ storeOp.pc # "done" /\ storeOp'.pc = "done"
  /\ storeOp'.name = "create"

\* C30: create(p, data) on an id some backend already holds an invoice
\* under leaves that invoice as it is; a used invoice stays used.
C30_CreateKeepsExisting ==
  [][StoreCreateReturns =>
       LET p == storeOp'.p
           before == Held(invoices, kv, now, p)
       IN before # Nil => Held(invoices', kv', now', p) = before]_vars

\* the step in which get(p) answers from the Map as the call that follows
\* delete(p), whatever the Redis client reported in between
GetFollowsDelete ==
  /\ storeOp.pc = "done" /\ storeOp.name = "delete"
  /\ storeOp'.pc = "done" /\ storeOp'.name = "get"
  /\ storeOp'.p = storeOp.p

\* C31: the get(p) that follows delete(p), with no create(p) in between,
\* returns nil whatever backend switches happened since the delete, and the
\* step in which delete(p) returns leaves every other invoice as it was.
C31_DeletedStaysDeleted ==
  [][/\ GetFollowsDelete => storeOp'.result = Nil
     /\ (storeOp.pc # "done" /\ storeOp'.pc = "done"
           /\ storeOp'.name = "delete") => OthersUnchanged(storeOp'.p)]_vars

\* the in-memory invoices older than 15 minutes: now - createdAt > expiryTime
OlderThanTTL == {p \in DOMAIN invoices : now - invoices[p].createdAt > TTL}

\* C32: a run of the periodic sweep removes exactly the in-memory invoices
\* older than 15 minutes and leaves the others as they are.
C32_SweepRemovesExpired ==
  [][nextSweep' # nextSweep =>
       /\ DOMAIN invoices' = DOMAIN invoices \ OlderThanTTL
       /\ \A p \in DOMAIN invoices' : invoices'[p] = invoices[p]]_vars

\* C33: addProvider appends one record to the registry, leaves the records
\* already there in their order and the health Map as they are; the new
\* provider passes the health filter of a selection at once and getProviders
\* reports it with status unknown and consecutiveFailures 0.
C33_AddProviderAppends ==
  [][providers' # providers =>
       LET n == Len(providers')
           new == providers'[n]
       IN /\ n = Len(providers) + 1
          /\ SubSeq(providers', 1, n - 1) = providers
          /\ providerHealth' = providerHealth
          /\ ~Unhealthy(providerHealth', new.id)
          /\ getProviders(providers', providerHealth')[n].health = Unknown]_vars

\* some post entry that has a pre entry of its accountIndex carries a mint
\* other than the required one
WrongMintSeen(call) ==
  \E i \in DOMAIN call.chain.post :
    /\ FindPre(call.chain.pre, call.chain.post[i].accountIndex, 1) # Nil
    /\ call.chain.post[i].mint # call.mint

\* the reason of a rejection by the precedence: not found, failed, no token
\* balance changes (a table missing or empty), wrong mint, no valid transfer
RejectionReason(call) ==
  CASE call.chain.kind = "null" -> "Transaction not found on chain"
    [] call.chain.kind = "failed" -> "Transaction failed on chain"
    [] call.chain.kind = "nometa" -> "No token balance changes found"
    [] Len(call.chain.pre) = 0 \/ Len(call.chain.post) = 0 ->
         "No token balance changes found"
    [] WrongMintSeen(call) -> "Wrong token mint"
    [] OTHER -> "No valid USDC transfer found"

\* C34: when connection.getTransaction answers and verifyPaymentOnChain,
\* called with a recipient that is a public key, rejects, the reason is the first that applies of: transaction not found,
\* transaction failed, no token balance changes, wrong mint, no valid
\* transfer; and a transaction with a pair that satisfies the acceptance
\* condition is accepted whatever the mints of its other pairs.
C34_RejectionPrecedence ==
  (verifyResult # Nil /\ verifyCall.facilitator = "none"
     /\ verifyCall.recipient # NoWallet
     /\ verifyCall.chain.kind # "rejects")
    => /\ ~verifyResult.valid
            => verifyResult.reason = RejectionReason(verifyCall)
       /\ ChainAccepts(verifyCall) => verifyResult.valid

\* the answers of the chain that differ from chain in owner fields only
OwnerVariants(chain) ==
  {[chain EXCEPT !.post = [i \in DOMAIN chain.post |->
                             [chain.post[i] EXCEPT !.owner = owners[i]]]] :
     owners \in [DOMAIN chain.post -> {PAYMENT_WALLET_ADDRESS, OtherWallet}]}

\* the valid flag of every run of verifyPaymentOnChain that differs from the
\* run of verifyCall only in owner fields and in a recipient among these
SameVerdict(recipients) ==
  \A chain \in OwnerVariants(verifyCall.chain), recipient \in recipients :
    verifyPaymentOnChain(chain, verifyCall.expectedAmount, verifyCall.mint,
                         recipient).valid = verifyResult.valid

\* C35 as stated: the valid flag of verifyPaymentOnChain is the same for
\* every recipient argument and all owner fields of the token-balance
\* entries.
C35_OwnerAndRecipientIgnored ==
  (verifyResult # Nil /\ verifyCall.facilitator = "none")
    => SameVerdict(Recipients)

\* C35, amended: the valid flag of verifyPaymentOnChain is the same for
\* every recipient argument that is a public key and all owner fields of the
\* token-balance entries.
C35_OwnerAndValidRecipientIgnored ==
  (verifyResult # Nil /\ verifyCall.facilitator = "none"
     /\ verifyCall.recipient # NoWallet)
    => SameVerdict(Recipients \ {NoWallet})

\* a transfer into a token account that another wallet owns was accepted
C35_Witness ==
  /\ verifyResult # Nil /\ verifyCall.facilitator = "none"
  /\ verifyResult.valid
  /\ verifyCall.recipient = PAYMENT_WALLET_ADDRESS
  /\ \A i \in DOMAIN verifyCall.chain.post :
       verifyCall.chain.post[i].owner = OtherWallet

\* C36: when every awaited call returns or times out, every request that
\* arrived is eventually answered; it is answered once (the response never
\* changes afterwards and exists only when the handler is done), and the
\* failover loop asks each registered provider at most once.
C36_EveryRequestAnswered ==
  /\ \A r \in LiveRequests :
       (pc[r] # "idle") ~> (pc[r] = "done" /\ resp[r] # Nil)
  /\ [][\A r \in LiveRequests : resp[r] # Nil => resp'[r] = resp[r]]_vars
  /\ [](\A r \in LiveRequests :
          /\ resp[r] # Nil <=> pc[r] = "done"
          /\ fetches[r].pc \in {"primary", "fallback"}
               => /\ Len(fetches[r].tried) <= Len(providers)
                  /\ \A i, j \in 1..Len(fetches[r].tried) :
                       fetches[r].tried[i] = fetches[r].tried[j] => i = j)

\* a paid request was answered after every provider had been asked, and a
\* request was answered by the catch block
C36_Witness ==
  /\ \E r \in LiveRequests :
       /\ pc[r] = "done" /\ resp[r].status = 200
       /\ fetches[r].pc = "done"
       /\ fetches[r].result = "providersUnavailable"
  /\ \E r \in LiveRequests : pc[r] = "done" /\ resp[r].status = 402

\* the copies of invoice p the two backends hold within its TTL
HeldCopies(p) ==
  (IF p \in DOMAIN invoices /\ now - invoices[p].createdAt <= TTL
   THEN {invoices[p]} ELSE {})
    \cup (IF p \in LiveKeys THEN {kv[p].value} ELSE {})

\* get(p) or markAsUsed(p) returns as the second operation of a run whose
\* first operation created p: a backend holds p
SecondOpReturns(name) ==
  /\ storeOp' # storeOp
  /\ storeOp'.pc = "done" /\ storeOp'.name = name /\ storeOp'.calls = 1 + 1
  /\ HeldCopies(storeOp'.p) # {}

\* C37: an invoice that was created and not deleted is returned by get(p)
\* within its TTL and is the one markAsUsed(p) marks, whichever backend is
\* active when the second operation runs.
C37_VisibleAcrossBackends ==
  [][/\ SecondOpReturns("get") => storeOp'.result \in HeldCopies(storeOp'.p)
     /\ SecondOpReturns("markAsUsed")
          => \A p \in {storeOp'.p} :
               \/ p \in DOMAIN invoices' /\ invoices'[p].used
               \/ p \in DOMAIN kv' /\ kv'[p].value.used]_vars

\* the amount of the invoice the gateway minted under paymentId p
InvoiceAmount(p) ==
  challenge[CHOOSE q \in Requests :
              challenge[q] # Nil /\ challenge[q].paymentId = p].amount

\* requests r1 and r2 were both served on receipts that carry the same
\* transaction signature
ServedOnSameTransaction(r1, r2) ==
  /\ r1 # r2
  /\ Done(r1) /\ resp[r1].status = 200
  /\ Done(r2) /\ resp[r2].status = 200
  /\ req[r1].txSignature = req[r2].txSignature

\* C38: one transaction pays for one invoice: two requests served with
\* HTTP 200 on the same transaction signature did not consume different
\* invoices of the same amount.
C38_OneTransactionOneInvoice ==
  \A r1, r2 \in Requests :
    (/\ ServedOnSameTransaction(r1, r2)
     /\ InvoiceAmount(req[r1].paymentId) = InvoiceAmount(req[r2].paymentId))
      => req[r1].paymentId = req[r2].paymentId

\* C39: a request served with HTTP 200 consumed an invoice whose amount is
\* at least the price of the method and params that were proxied.
C39_ServedWhatWasPaidFor ==
  \A r \in Requests :
    (Done(r) /\ resp[r].status = 200)
      => InvoiceAmount(req[r].paymentId) >= calculatePrice(req[r].body)

\* C40: the X-Payment-Response header of a 200 says settled = true only
\* when the settlement notification was sent to the facilitator and
\* succeeded; without a settle URL, or when the notification fails, it says
\* settled = false.
C40_SettledMeansSettled ==
  \A r \in Requests :
    (Done(r) /\ resp[r].status = 200)
      => (resp[r].header.settled <=> "settled" \in trail[r])

====
